---- MODULE Spec2Model ----
(***************************************************************************)
(* Model of the concurrent, resumable file indexer of nas_track.py:        *)
(* NASScanner (visited set, work queue, worker loops), the SQLite store DB *)
(* and the file system it walks.                                           *)
(*                                                                         *)
(* The inner "try:" of _dir_scan_loop (line 334) has no handler of its     *)
(* own; it is modelled as what a handler-less try does: nothing.           *)
(***************************************************************************)
EXTENDS Integers, Sequences, FiniteSets, TLC

(* ------------------------------ bounds -------------------------------- *)
\* physical directories of the file system; directory 1 is the scan root
NumDirs == 3
\* worker loops submitted by scan() (self.threads)
NumWorkers == 2
\* scans run one after the other against the same store
MaxRuns == 2
\* changes made to files between two scans
MaxChanges == 1
\* upsert_file calls made on a DB object used on its own
MaxUpserts == 3
\* data files placed under the root a CatalogScanner scans
NumData == 3
\* bytes of a hashed file, and bytes of one read
MaxLen == 3
MaxBlock == 3

Dirs == 1..NumDirs
FileIds == 1..NumDirs
Workers == 1..NumWorkers

\* Python's None / an absent value, and a present value x
None == <<>>
Some(x) == <<x>>
\* threading.Lock: the worker holding it, 0 when free
NoOwner == 0

(* --------------------------- the file system -------------------------- *)
\* entry names: DirNames[d] is the name of directory d in its parent
DirNames == <<"d1", "d2", "d3", "d4", "d5">>
FileNames == <<"a.txt", "b.txt", "c.txt", "e.txt", "g.txt">>
LinkName == "lnk"

\* st_dev, st_ino of a directory: two devices, inode numbers reused across them
DirDev(d) == d % 2
DirIno(d) == (d + 1) \div 2
\* st_dev, st_ino of a regular file
FileDev(f) == f % 2
FileIno(f) == 100 + f
\* st_dev, st_ino of the symlink itself, when the root path is a symlink
RootLinkId == [dev |-> 0, ino |-> 200]

\* file contents: files 1 and 2 are byte-identical, the others are unique
InitContent(f) == IF f <= 2 THEN 1 ELSE f
ContentSize(c) == IF c = 1 THEN 10 ELSE 5

\* the skeletons: parent[d] for d > 1 is a directory created before d
Skeletons == { p \in [Dirs -> Dirs] : p[1] = 1 /\ \A d \in Dirs \ {1} : p[d] < d }

\* one optional extra entry "lnk" leading to a directory: a second directory
\* entry for it (hard link or bind mount) or a symlink to it
LinkKinds == {"dir", "symdir"}
NoLink == [src |-> 1, kind |-> "none", tgt |-> 1]
ExtraLinks == {NoLink} \cup [src : Dirs, kind : LinkKinds, tgt : Dirs]

Trees == [rootkind : {"dir", "symdir"}, parent : Skeletons, link : ExtraLinks]

\* a is d or an ancestor of d in the skeleton
RECURSIVE IsAncestor(_, _, _)
IsAncestor(t, a, d) ==
    IF a = d THEN TRUE ELSE IF d = 1 THEN FALSE ELSE IsAncestor(t, a, t.parent[d])

\* the extra entry closes a cycle: it leads from a directory back to itself or
\* to one of its ancestors
HasCycle(t) ==
    /\ t.link.kind \in {"dir", "symdir"}
    /\ IsAncestor(t, t.link.tgt, t.link.src)

\* os.scandir(dir): the entries of physical directory d, in directory order
Children(t, d) == { c \in Dirs \ {1} : t.parent[c] = d }

RECURSIVE SetToSeq(_)
SetToSeq(S) ==
    IF S = {} THEN <<>>
    ELSE LET m == CHOOSE x \in S : \A y \in S : x <= y
         IN <<m>> \o SetToSeq(S \ {m})

DirEntry(c) == [name |-> DirNames[c], kind |-> "dir", tgt |-> c]
FileEntry(d) == [name |-> FileNames[d], kind |-> "file", tgt |-> d]

Listing(t, d) ==
    LET cs == SetToSeq(Children(t, d))
        subs == [i \in 1..Len(cs) |-> DirEntry(cs[i])]
        lnk == IF t.link.kind # "none" /\ t.link.src = d
               THEN <<[name |-> LinkName, kind |-> t.link.kind, tgt |-> t.link.tgt]>>
               ELSE <<>>
    IN <<FileEntry(d)>> \o lnk \o subs

\* the file-system graph: the shape and, per directory, its listing
Graph(t) == [rootkind |-> t.rootkind, parent |-> t.parent, link |-> t.link,
             ent |-> [d \in Dirs |-> Listing(t, d)]]

\* the entry called name in directory d
EntryNamed(g, d, name) ==
    CHOOSE e \in { g.ent[d][i] : i \in DOMAIN g.ent[d] } : e.name = name

\* the physical directory a path names (os.scandir follows a final symlink)
RECURSIVE Resolve(_, _)
Resolve(g, path) ==
    IF path = <<>> THEN 1
    ELSE EntryNamed(g, Resolve(g, SubSeq(path, 1, Len(path) - 1)),
                    path[Len(path)]).tgt

(* ------------------------------ the state ----------------------------- *)
VARIABLES
    tree,          \* the directory graph under the root (fixed during the scans)
    files,         \* regular files: content, st_size, st_mtime
    changes,       \* file changes made so far between scans
    db,            \* table files: path -> row (path is UNIQUE)
    phase,         \* "idle" | "ready" (constructed) | "scanning"
    run,           \* scans constructed so far
    cfg,           \* the scanner's options
    scanned_at,    \* self.scanned_at
    visited_inodes,\* self.visited_inodes
    visited_lock,  \* self.visited_lock: its holder
    dir_queue,     \* self.dir_queue: FIFO of paths
    unfinished,    \* dir_queue.unfinished_tasks
    wk,            \* the worker loops: pc, claimed path and the directory it
                   \* opens, position in the listing
    pushLog,       \* history: every dir_queue.put of the run, [path, dir]
    claimLog,      \* history: every successful dir_queue.get of the run
    mvLog,         \* history: key -> results returned by mark_visited, in order
    events,        \* history: what was done with each file entry, per run
    hashes,        \* history: number of sha256_file calls
    upserts,       \* history: number of db.upsert_file calls
    runs,          \* history: per finished scan its options, the files it
                   \* met and, at its end, the store and the two counters
    db_lock,       \* DB._lock: its holder
    pending,       \* rows written on the connection and not yet committed
    call,          \* per worker the meta of its upsert_file call in progress
    rp,            \* a thread calling db.find_duplicates(): "out" | "in"
    reads,         \* history: per reader what its last store read returned
    upLog,         \* history: the metas of the upsert_file calls, in the order
                   \* of their commits
    bad_dirs,      \* directories whose listing fails
    gone,          \* files that vanished
    interrupted,   \* the interrupt delivered to the main thread during a scan:
                   \* None, or the number of claims made before it
    hs,            \* a streaming hash of one file: content, block size, read
                   \* position, digest state
    cs,            \* a CatalogScanner.scan: files on disk, walk position,
                   \* entries yielded
    processed      \* loops[w]: processed_files of worker loop w; total: the
                   \* sum scan() has accumulated; reported: the total was
                   \* logged

vars == <<tree, files, changes, db, phase, run, cfg, scanned_at, visited_inodes,
          visited_lock, dir_queue, unfinished, wk, pushLog, claimLog, mvLog,
          events, hashes, upserts, runs, db_lock, pending, call, rp, reads,
          upLog, bad_dirs, gone, interrupted, hs, cs, processed>>

fsVars == <<tree, files, changes>>
scanVars == <<phase, run, cfg, scanned_at>>
histVars == <<pushLog, claimLog, mvLog, events, hashes, upserts, runs>>
storeVars == <<db_lock, pending, call, rp, reads, upLog>>
faultVars == <<bad_dirs, gone>>
extVars == <<interrupted, hs, cs, processed>>
auxVars == <<storeVars, faultVars, extVars>>

\* _dir_scan_loop lines 355-357: process_file returned the meta, so
\* processed_files += 1
Counted(w) == [processed EXCEPT !.loops[w] = @ + 1]

(* ----------------------------- pure helpers --------------------------- *)
\* mutant: every content has the same digest
DigestConstant(c) == c - c + 1000

\* hashlib.sha256 of a content: injective on the contents of the model
Digest(c) == 1000 + c

\* sha256_file(path): the digest of the file's bytes
sha256_file(f) == Some(Digest(files[f].content))

\* mutant: entry.is_dir() with its default, symlinks followed
EntryIsDirFollowed(e, follow) == e.kind \in {"dir", "symdir"}

\* os.stat(entry.path, follow_symlinks=follow) and entry.is_dir / entry.is_file
EntryIsDir(e, follow) == e.kind = "dir" \/ (follow /\ e.kind = "symdir")
EntryIsFile(e, follow) == e.kind = "file" \/ (follow /\ e.kind = "symfile")

StatDir(d) == [dev |-> DirDev(d), ino |-> DirIno(d)]
StatFile(f) == [dev |-> FileDev(f), ino |-> FileIno(f),
                size |-> files[f].size, mtime |-> files[f].mtime]

\* mutant: the root is always lstat'ed, whatever follow_symlinks says
RootStatNoFollow(t, follow) ==
    IF t.rootkind = "symdir" THEN RootLinkId ELSE StatDir(1)

\* root_stat = safe_stat(self.root, follow_symlinks=self.follow_symlinks)
RootStat(t, follow) ==
    IF t.rootkind = "symdir" /\ ~follow THEN RootLinkId ELSE StatDir(1)

\* mutant: the key is the inode number alone
VisitKeyInodeOnly(st) == <<st.ino>>

\* key = (st.st_dev, st.st_ino)
VisitKey(st) == <<st.dev, st.ino>>

\* mutant: the timestamp is taken once and reused by every scanner
ClockFrozen(r) == r - r + 1

\* time.time() when the scanner of run r + 1 is constructed: later runs read
\* a later clock
Clock(r) == r + 1

\* mutant: the get gives up although the queue may hold paths
GetTimesOutAnytime(q) == TRUE

\* Queue.get(timeout=1) raises Empty only while the queue holds nothing
GetTimesOut(q) == q = <<>>

\* mutant: no mutual exclusion around the check-and-insert
LockAlwaysFree(l) == TRUE

\* the lock of "with self.visited_lock" can be taken
LockFree(l) == l = NoOwner

\* "if key in self.visited_inodes"
AlreadyVisited(vis, key) == key \in vis

\* mutant: the key is never added
AddVisitedDropped(vis, key) == vis

\* self.visited_inodes.add(key)
AddVisited(vis, key) == vis \cup {key}

\* mutant: no name is ever filtered out
should_skip_by_nameNever(c, name) == FALSE

\* should_skip_by_name: fnmatch of the name against the pattern, a glob being
\* the set of names it matches
should_skip_by_name(c, name) ==
    IF c.pattern = None THEN FALSE ELSE name \notin c.pattern[1]

\* mutant: the bounds are exclusive
SkipBySizeExclusive(c, size) ==
    size <= c.min_size \/ (c.max_size # None /\ size >= c.max_size[1])

\* process_file's size filter
SkipBySize(c, size) ==
    size < c.min_size \/ (c.max_size # None /\ size > c.max_size[1])

\* mutant: the lookup never finds the row
LookupMiss(store, path) == None

\* SELECT size,mtime FROM files WHERE path=?
Lookup(store, path) == IF path \in DOMAIN store THEN Some(store[path]) ELSE None

\* mutant: only the modification time is compared
ResumeSkipMtimeOnly(row, st) == row # None /\ row[1].mtime = st.mtime

\* "if row and row[0] == st.st_size and row[1] == st.st_mtime"
ResumeSkip(row, st) ==
    row # None /\ row[1].size = st.size /\ row[1].mtime = st.mtime

\* mutant: INSERT OR REPLACE into a table emptied first
UpsertAfterDelete(store, meta) == [p \in {meta.path} |-> meta]

\* mutant: ON CONFLICT(path) DO NOTHING
UpsertKeepOld(store, meta) ==
    [p \in DOMAIN store \cup {meta.path} |->
        IF p \in DOMAIN store THEN store[p] ELSE meta]

\* mutant: sha256 = COALESCE(excluded.sha256, sha256)
UpsertCoalesce(store, meta) ==
    [p \in DOMAIN store \cup {meta.path} |->
        IF p # meta.path THEN store[p]
        ELSE IF p \in DOMAIN store /\ meta.sha256 = None
        THEN [meta EXCEPT !.sha256 = store[p].sha256]
        ELSE meta]

\* INSERT ... ON CONFLICT(path) DO UPDATE SET every column = excluded
Upsert(store, meta) ==
    [p \in DOMAIN store \cup {meta.path} |-> IF p = meta.path THEN meta ELSE store[p]]

\* the meta dict of process_file (atime, ctime, mode, uid, gid and mime are
\* copied from the status like size and mtime and are left out)
Meta(path, st, sha, at) ==
    [path |-> path, size |-> st.size, mtime |-> st.mtime, dev |-> st.dev,
     inode |-> st.ino, sha256 |-> sha, scanned_at |-> at]

\* ORDER BY path: paths compare as their strings do; no name of the model is
\* a prefix of another, so the strings compare name by name, a path before
\* its extensions
NameOrder == <<"a.txt", "b.txt", "c.txt", "d1", "d2", "d3", "d4", "d5", "e.txt",
               "g.txt", "lnk">>
NameRank(n) == CHOOSE i \in DOMAIN NameOrder : NameOrder[i] = n

RECURSIVE PathLess(_, _)
PathLess(p, q) ==
    IF p = <<>> THEN q # <<>>
    ELSE IF q = <<>> THEN FALSE
    ELSE IF p[1] = q[1] THEN PathLess(Tail(p), Tail(q))
    ELSE NameRank(p[1]) < NameRank(q[1])

RECURSIVE SortPaths(_)
SortPaths(S) ==
    IF S = {} THEN <<>>
    ELSE LET m == CHOOSE x \in S : \A y \in S \ {x} : PathLess(x, y)
         IN <<m>> \o SortPaths(S \ {m})

\* mutant: the grouping query without HAVING c > 1
find_duplicatesNoHaving(store) ==
    LET hashed == { p \in DOMAIN store : store[p].sha256 # None }
        members(h) == { p \in hashed : store[p].sha256[1] = h }
    IN [h \in { store[p].sha256[1] : p \in hashed } |->
          LET ps == SortPaths(members(h))
          IN [i \in 1..Len(ps) |-> <<ps[i], store[ps[i]].size, store[ps[i]].mtime>>]]

\* the queries of find_duplicates, lines 145-158: the hashes of the rows
\* WHERE sha256 IS NOT NULL GROUP BY sha256 HAVING COUNT(*) > 1, and per hash
\* SELECT path,size,mtime WHERE sha256=? ORDER BY path
find_duplicates(store) ==
    LET hashed == { p \in DOMAIN store : store[p].sha256 # None }
        members(h) == { p \in hashed : store[p].sha256[1] = h }
        dup == { h \in { store[p].sha256[1] : p \in hashed } :
                    Cardinality(members(h)) > 1 }
    IN [h \in dup |->
          LET ps == SortPaths(members(h))
          IN [i \in 1..Len(ps) |-> <<ps[i], store[ps[i]].size, store[ps[i]].mtime>>]]

\* mutant: processed = fut.result()
AccumulateLast(total, n) == n

\* scan() line 317: processed += fut.result()
Accumulate(total, n) == total + n

(* ------------------------------- options ------------------------------ *)
\* the options of NASScanner.__init__; threads is NumWorkers
Patterns == {None, Some({FileNames[1], FileNames[3]})}
Configs == [follow_symlinks : BOOLEAN, compute_hash : BOOLEAN, resume : BOOLEAN,
            pattern : Patterns, min_size : {0, 6}, max_size : {None}]

\* no name pattern and no size bound is set
NoFilters(c) == c.pattern = None /\ c.min_size = 0 /\ c.max_size = None

\* the command line's defaults, with or without --follow-symlinks
DefaultConfigs == { c \in Configs : c.resume /\ ~c.compute_hash /\ NoFilters(c) }

IdleWorker == [pc |-> "exited", path |-> <<>>, dir |-> 1, idx |-> 0, seen |-> FALSE]

(* ------------------------------- actions ------------------------------ *)
\* a file system and options: the store is new, no scanner exists yet
InitWith(graphs, configs) ==
    /\ tree \in graphs
    /\ files = [f \in FileIds |-> [content |-> InitContent(f),
                                   size |-> ContentSize(InitContent(f)),
                                   mtime |-> 1]]
    /\ changes = 0
    /\ db = <<>>
    /\ phase = "idle"
    /\ run = 0
    /\ cfg \in configs
    /\ scanned_at = 0
    /\ visited_inodes = {}
    /\ visited_lock = NoOwner
    /\ dir_queue = <<>>
    /\ unfinished = 0
    /\ wk = [w \in Workers |-> IdleWorker]
    /\ pushLog = <<>>
    /\ claimLog = <<>>
    /\ mvLog = <<>>
    /\ events = {}
    /\ hashes = 0
    /\ upserts = 0
    /\ runs = <<>>
    /\ db_lock = NoOwner
    /\ pending = <<>>
    /\ call = [w \in Workers |-> None]
    /\ rp = "out"
    /\ reads = [r \in Workers \cup {NumWorkers + 1} |-> None]
    /\ upLog = <<>>
    /\ bad_dirs = {}
    /\ gone = {}
    /\ interrupted = None
    /\ hs = None
    /\ cs = None
    /\ processed = [loops |-> [w \in Workers |-> 0], total |-> 0, reported |-> FALSE]

\* any graph, scanned once with the default options
Init == InitWith({ Graph(t) : t \in Trees }, DefaultConfigs)

\* NASScanner.__init__ with options c: scanned_at = time.time(), a fresh
\* visited set and queue
NewScanner(c) ==
    /\ phase = "idle"
    /\ run < MaxRuns
    /\ cfg' = c
    /\ run' = run + 1
    /\ scanned_at' = Clock(run)
    /\ visited_inodes' = {}
    /\ visited_lock' = NoOwner
    /\ dir_queue' = <<>>
    /\ unfinished' = 0
    /\ phase' = "ready"
    /\ pushLog' = <<>>
    /\ claimLog' = <<>>
    /\ mvLog' = <<>>
    /\ UNCHANGED <<auxVars, fsVars, db, wk, events, hashes, upserts, runs>>

\* mutant: the first worker loop is started on the root directly, the root
\* is not put on the queue
ScanUnqueued ==
    /\ phase = "ready"
    /\ LET st == RootStat(tree, cfg.follow_symlinks)
           key == VisitKey(st)
       IN /\ mvLog' = [k \in DOMAIN mvLog \cup {key} |->
                        IF k = key THEN <<~AlreadyVisited(visited_inodes, key)>>
                        ELSE mvLog[k]]
          /\ visited_inodes' = AddVisited(visited_inodes, key)
    /\ unfinished' = unfinished + 1
    /\ wk' = [w \in Workers |->
                IF w = 1 THEN [pc |-> "scan", path |-> <<>>,
                               dir |-> Resolve(tree, <<>>), idx |-> 1, seen |-> FALSE]
                ELSE [IdleWorker EXCEPT !.pc = "get"]]
    /\ phase' = "scanning"
    /\ processed' = [loops |-> [w \in Workers |-> 0], total |-> 0, reported |-> FALSE]
    /\ UNCHANGED <<storeVars, faultVars, interrupted, hs, cs,
                   fsVars, db, run, cfg, scanned_at, visited_lock, dir_queue,
                   pushLog, claimLog, events, hashes, upserts, runs>>

\* scan(), lines 292-312: mark the root visited, put it, submit the worker loops
Scan ==
    /\ phase = "ready"
    /\ LET st == RootStat(tree, cfg.follow_symlinks)
           key == VisitKey(st)
       IN /\ mvLog' = [k \in DOMAIN mvLog \cup {key} |->
                        IF k = key THEN <<~AlreadyVisited(visited_inodes, key)>>
                        ELSE mvLog[k]]
          /\ visited_inodes' = AddVisited(visited_inodes, key)
    /\ dir_queue' = Append(dir_queue, <<>>)
    /\ unfinished' = unfinished + 1
    /\ pushLog' = Append(pushLog, [path |-> <<>>, dir |-> Resolve(tree, <<>>)])
    /\ wk' = [w \in Workers |-> [IdleWorker EXCEPT !.pc = "get"]]
    /\ phase' = "scanning"
    /\ processed' = [loops |-> [w \in Workers |-> 0], total |-> 0, reported |-> FALSE]
    /\ UNCHANGED <<storeVars, faultVars, interrupted, hs, cs,
                   fsVars, db, run, cfg, scanned_at, visited_lock, claimLog,
                   events, hashes, upserts, runs>>

\* mutant: the path is read from the head of the queue and left there for
\* one more get
GetKeep(w) ==
    /\ phase = "scanning"
    /\ wk[w].pc = "get"
    /\ dir_queue # <<>>
    /\ LET p == Head(dir_queue)
           d == Resolve(tree, p)
       IN /\ wk' = [wk EXCEPT ![w] = [pc |-> "scan", path |-> p, dir |-> d,
                                      idx |-> 1, seen |-> FALSE]]
          /\ claimLog' = Append(claimLog, [path |-> p, dir |-> d])
          /\ dir_queue' = IF \E i \in DOMAIN claimLog : claimLog[i].path = p
                          THEN Tail(dir_queue) ELSE dir_queue
    /\ UNCHANGED <<auxVars, fsVars, db, scanVars, visited_inodes, visited_lock, unfinished,
                   pushLog, mvLog, events, hashes, upserts, runs>>

\* dirpath = self.dir_queue.get(timeout=1), an item being there
Get(w) ==
    /\ phase = "scanning"
    /\ wk[w].pc = "get"
    /\ dir_queue # <<>>
    /\ LET p == Head(dir_queue)
           d == Resolve(tree, p)
       IN /\ wk' = [wk EXCEPT ![w] = [pc |-> "scan", path |-> p, dir |-> d,
                                      idx |-> 1, seen |-> FALSE]]
          /\ claimLog' = Append(claimLog, [path |-> p, dir |-> d])
    /\ dir_queue' = Tail(dir_queue)
    /\ UNCHANGED <<auxVars, fsVars, db, scanVars, visited_inodes, visited_lock, unfinished,
                   pushLog, mvLog, events, hashes, upserts, runs>>

\* the get times out on an empty queue: except Empty: break
Timeout(w) ==
    /\ phase = "scanning"
    /\ wk[w].pc = "get"
    /\ GetTimesOut(dir_queue)
    /\ wk' = [wk EXCEPT ![w].pc = "exited"]
    /\ processed' = [processed EXCEPT !.total = Accumulate(@, processed.loops[w])]
    /\ UNCHANGED <<storeVars, faultVars, interrupted, hs, cs,
                   fsVars, db, scanVars, visited_inodes, visited_lock, dir_queue,
                   unfinished, histVars>>

\* the entry the worker is at in the listing of its directory
CurListing(w) == tree.ent[wk[w].dir]
CurEntry(w) == CurListing(w)[wk[w].idx]
AtEntry(w) ==
    /\ phase = "scanning"
    /\ wk[w].pc = "scan"
    /\ wk[w].idx <= Len(CurListing(w))

\* an entry that is neither a directory nor a regular file under the
\* follow_symlinks setting (a symlink that is not followed): nothing is done
OtherEntry(w) ==
    /\ AtEntry(w)
    /\ ~EntryIsDir(CurEntry(w), cfg.follow_symlinks)
    /\ ~EntryIsFile(CurEntry(w), cfg.follow_symlinks)
    /\ wk' = [wk EXCEPT ![w].idx = @ + 1]
    /\ UNCHANGED <<auxVars, fsVars, db, scanVars, visited_inodes, visited_lock, dir_queue,
                   unfinished, histVars>>

\* a directory entry, mark_visited lines 202-204: take the lock, test the key
MarkVisitedEnter(w) ==
    /\ AtEntry(w)
    /\ EntryIsDir(CurEntry(w), cfg.follow_symlinks)
    /\ LockFree(visited_lock)
    /\ visited_lock' = w
    /\ wk' = [wk EXCEPT ![w].pc = "marking",
                         ![w].seen = AlreadyVisited(visited_inodes,
                                         VisitKey(StatDir(CurEntry(w).tgt)))]
    /\ UNCHANGED <<auxVars, fsVars, db, scanVars, visited_inodes, dir_queue, unfinished,
                   histVars>>

\* mark_visited lines 205-207 and its caller, lines 339-343: add the key and
\* return True, or return False; release the lock; put the path when True
MarkVisitedReturn(w) ==
    /\ phase = "scanning"
    /\ wk[w].pc = "marking"
    /\ LET e == CurEntry(w)
           key == VisitKey(StatDir(e.tgt))
           result == ~wk[w].seen
           p == Append(wk[w].path, e.name)
       IN /\ visited_inodes' = IF result THEN AddVisited(visited_inodes, key)
                                ELSE visited_inodes
          /\ mvLog' = [k \in DOMAIN mvLog \cup {key} |->
                        IF k = key
                        THEN (IF k \in DOMAIN mvLog THEN mvLog[k] ELSE <<>>) \o <<result>>
                        ELSE mvLog[k]]
          /\ dir_queue' = IF result THEN Append(dir_queue, p) ELSE dir_queue
          /\ unfinished' = IF result THEN unfinished + 1 ELSE unfinished
          /\ pushLog' = IF result THEN Append(pushLog, [path |-> p, dir |-> e.tgt])
                         ELSE pushLog
    /\ visited_lock' = IF visited_lock = w THEN NoOwner ELSE visited_lock
    /\ wk' = [wk EXCEPT ![w].pc = "scan", ![w].idx = @ + 1]
    /\ UNCHANGED <<auxVars, fsVars, db, scanVars, claimLog, events, hashes, upserts, runs>>

\* mutant: regular files pass through mark_visited as directories do
FileStepGated(w) ==
    /\ AtEntry(w)
    /\ EntryIsFile(CurEntry(w), cfg.follow_symlinks)
    /\ LET e == CurEntry(w)
           p == Append(wk[w].path, e.name)
           st == StatFile(e.tgt)
           key == VisitKey(st)
           ev(a) == [run |-> run, path |-> p, file |-> e.tgt, act |-> a,
                     hashed |-> a = "process" /\ cfg.compute_hash]
       IN IF AlreadyVisited(visited_inodes, key)
          THEN UNCHANGED <<visited_inodes, events, db, hashes, upserts, processed>>
          ELSE /\ visited_inodes' = AddVisited(visited_inodes, key)
               /\ IF should_skip_by_name(cfg, e.name)
                  THEN /\ events' = events \cup {ev("skip_name")}
                       /\ UNCHANGED <<processed, db, hashes, upserts>>
                  ELSE IF cfg.resume /\ ResumeSkip(Lookup(db, p), st)
                  THEN /\ events' = events \cup {ev("skip_resume")}
                       /\ UNCHANGED <<processed, db, hashes, upserts>>
                  ELSE IF SkipBySize(cfg, st.size)
                  THEN /\ events' = events \cup {ev("skip_size")}
                       /\ UNCHANGED <<processed, db, hashes, upserts>>
                  ELSE /\ events' = events \cup {ev("process")}
                       /\ processed' = Counted(w)
                       /\ hashes' = IF cfg.compute_hash THEN hashes + 1 ELSE hashes
                       /\ upserts' = upserts + 1
                       /\ db' = Upsert(db, Meta(p, st,
                                                IF cfg.compute_hash
                                                THEN sha256_file(e.tgt) ELSE None,
                                                scanned_at))
    /\ wk' = [wk EXCEPT ![w].idx = @ + 1]
    /\ UNCHANGED <<storeVars, faultVars, interrupted, hs, cs,
                   fsVars, scanVars, visited_lock, dir_queue,
                   unfinished, pushLog, claimLog, mvLog, runs>>

\* a regular file, lines 344-357 and process_file: name filter, resume lookup,
\* size filter, hash, upsert
FileStep(w) ==
    /\ AtEntry(w)
    /\ EntryIsFile(CurEntry(w), cfg.follow_symlinks)
    /\ LET e == CurEntry(w)
           p == Append(wk[w].path, e.name)
           st == StatFile(e.tgt)
           ev(a) == [run |-> run, path |-> p, file |-> e.tgt, act |-> a,
                     hashed |-> a = "process" /\ cfg.compute_hash]
       IN IF should_skip_by_name(cfg, e.name)
          THEN /\ events' = events \cup {ev("skip_name")}
               /\ UNCHANGED <<processed, db, hashes, upserts>>
          ELSE IF cfg.resume /\ ResumeSkip(Lookup(db, p), st)
          THEN /\ events' = events \cup {ev("skip_resume")}
               /\ UNCHANGED <<processed, db, hashes, upserts>>
          ELSE IF SkipBySize(cfg, st.size)
          THEN /\ events' = events \cup {ev("skip_size")}
               /\ UNCHANGED <<processed, db, hashes, upserts>>
          ELSE /\ events' = events \cup {ev("process")}
               /\ processed' = Counted(w)
               /\ hashes' = IF cfg.compute_hash THEN hashes + 1 ELSE hashes
               /\ upserts' = upserts + 1
               /\ db' = Upsert(db, Meta(p, st,
                                        IF cfg.compute_hash THEN sha256_file(e.tgt)
                                        ELSE None,
                                        scanned_at))
    /\ wk' = [wk EXCEPT ![w].idx = @ + 1]
    /\ UNCHANGED <<storeVars, faultVars, interrupted, hs, cs,
                   fsVars, scanVars, visited_inodes, visited_lock, dir_queue,
                   unfinished, pushLog, claimLog, mvLog, runs>>

\* mutant: the worker loop returns after the directory it listed
TaskDoneExit(w) ==
    /\ phase = "scanning"
    /\ wk[w].pc = "scan"
    /\ wk[w].idx > Len(CurListing(w))
    /\ unfinished' = unfinished - 1
    /\ wk' = [wk EXCEPT ![w].pc = "exited"]
    /\ UNCHANGED <<auxVars, fsVars, db, scanVars, visited_inodes, visited_lock, dir_queue,
                   histVars>>

\* the listing is exhausted: finally: self.dir_queue.task_done(), back to get
TaskDone(w) ==
    /\ phase = "scanning"
    /\ wk[w].pc = "scan"
    /\ wk[w].idx > Len(CurListing(w))
    /\ unfinished' = unfinished - 1
    /\ wk' = [wk EXCEPT ![w].pc = "get"]
    /\ UNCHANGED <<auxVars, fsVars, db, scanVars, visited_inodes, visited_lock, dir_queue,
                   histVars>>

\* mutant: pool.shutdown(wait=False), the store is closed at once
ScanEndNoWait ==
    /\ phase = "scanning"
    /\ phase' = "idle"
    /\ runs' = Append(runs, [cfg |-> cfg, files |-> files, db |-> db,
                             hashes |-> hashes, upserts |-> upserts])
    /\ processed' = [processed EXCEPT
                       !.reported = /\ interrupted = None
                                    /\ ~\E x \in events : x.run = run /\ x.act = "lookup_error"]
    /\ UNCHANGED <<storeVars, faultVars, interrupted, hs, cs,
                   fsVars, db, run, cfg, scanned_at, visited_inodes, visited_lock,
                   dir_queue, unfinished, wk, pushLog, claimLog, mvLog, events,
                   hashes, upserts>>

\* scan(), lines 314-321: every worker loop has returned; shutdown, db.close()
ScanEnd ==
    /\ phase = "scanning"
    /\ \A w \in Workers : wk[w].pc = "exited"
    /\ phase' = "idle"
    /\ runs' = Append(runs, [cfg |-> cfg, files |-> files, db |-> db,
                             hashes |-> hashes, upserts |-> upserts])
    /\ processed' = [processed EXCEPT
                       !.reported = /\ interrupted = None
                                    /\ ~\E x \in events : x.run = run /\ x.act = "lookup_error"]
    /\ UNCHANGED <<storeVars, faultVars, interrupted, hs, cs,
                   fsVars, db, run, cfg, scanned_at, visited_inodes, visited_lock,
                   dir_queue, unfinished, wk, pushLog, claimLog, mvLog, events,
                   hashes, upserts>>

\* between two scans: a file's modification time is touched
Touch(f) ==
    /\ phase = "idle"
    /\ run >= 1
    /\ run < MaxRuns
    /\ changes < MaxChanges
    /\ files' = [files EXCEPT ![f].mtime = @ + 1]
    /\ changes' = changes + 1
    /\ UNCHANGED <<auxVars, tree, db, scanVars, visited_inodes, visited_lock, dir_queue,
                   unfinished, wk, histVars>>

\* between two scans: a file is rewritten with content of another size and its
\* modification time is put back
Rewrite(f) ==
    /\ phase = "idle"
    /\ run >= 1
    /\ run < MaxRuns
    /\ changes < MaxChanges
    /\ LET c == IF files[f].content = 1 THEN 2 ELSE 1
       IN files' = [files EXCEPT ![f].content = c, ![f].size = ContentSize(c)]
    /\ changes' = changes + 1
    /\ UNCHANGED <<auxVars, tree, db, scanVars, visited_inodes, visited_lock, dir_queue,
                   unfinished, wk, histVars>>

\* the first scanner of the process, with the options of the command line
FirstScanner ==
    /\ run = 0
    /\ NewScanner(cfg)

\* a later invocation against the same store, with any options
NextScanner(c) ==
    /\ run >= 1
    /\ NewScanner(c)

Next ==
    \/ FirstScanner
    \/ Scan
    \/ \E w \in Workers : Get(w)
    \/ \E w \in Workers : Timeout(w)
    \/ \E w \in Workers : OtherEntry(w)
    \/ \E w \in Workers : MarkVisitedEnter(w)
    \/ \E w \in Workers : MarkVisitedReturn(w)
    \/ \E w \in Workers : FileStep(w)
    \/ \E w \in Workers : TaskDone(w)
    \/ ScanEnd

Spec == Init /\ [][Next]_vars

\* the steps of worker loop w
WorkerStep(w) ==
    \/ Get(w)
    \/ Timeout(w)
    \/ OtherEntry(w)
    \/ MarkVisitedEnter(w)
    \/ MarkVisitedReturn(w)
    \/ FileStep(w)
    \/ TaskDone(w)

\* the main thread goes on to construct and start the scan, and every pool
\* thread keeps being scheduled
\* the scans of the graphs that have a cycle
InitCycle ==
    InitWith({ Graph(t) : t \in { x \in Trees : HasCycle(x) } }, DefaultConfigs)

FairSpec ==
    /\ InitCycle
    /\ [][Next]_vars
    /\ WF_vars(FirstScanner)
    /\ WF_vars(Scan)
    /\ \A w \in Workers : WF_vars(WorkerStep(w))

\* repeated scans of a tree against one store, files changing in between
\* a tree under a real root directory, with at most a symlink in the root
\* directory, scanned without following symlinks
RescanTrees ==
    { t \in Trees : /\ t.link.kind \in {"none", "symdir"}
                    /\ t.link.src = 1
                    /\ t.rootkind = "dir" }

InitRescan ==
    InitWith({ Graph(t) : t \in RescanTrees },
             { c \in Configs : ~c.follow_symlinks })

\* the command is run again with --hash and --no-resume set anew, the other
\* options as before
RescanConfigs == { c \in Configs : /\ c.follow_symlinks = cfg.follow_symlinks
                                   /\ c.pattern = cfg.pattern
                                   /\ c.min_size = cfg.min_size
                                   /\ c.max_size = cfg.max_size }

NextRescan ==
    \/ Next
    \/ \E c \in RescanConfigs : NextScanner(c)
    \/ \E f \in FileIds : Touch(f)
    \/ \E f \in FileIds : Rewrite(f)

SpecRescan == InitRescan /\ [][NextRescan]_vars

(* ------------------ scans of a failing file system ------------------- *)
\* a file is removed, between two scans or during one
Vanish(f) ==
    /\ phase = "scanning" \/ (phase = "idle" /\ run < MaxRuns)
    /\ changes < MaxChanges
    /\ f \notin gone
    /\ gone' = gone \cup {f}
    /\ changes' = changes + 1
    /\ UNCHANGED <<tree, files, db, scanVars, visited_inodes, visited_lock,
                   dir_queue, unfinished, wk, histVars, storeVars, bad_dirs, extVars>>

\* a directory becomes unreadable (permissions, removal, I/O error)
Revoke(d) ==
    /\ phase = "scanning" \/ (phase = "idle" /\ run < MaxRuns)
    /\ changes < MaxChanges
    /\ d \notin bad_dirs
    /\ bad_dirs' = bad_dirs \cup {d}
    /\ changes' = changes + 1
    /\ UNCHANGED <<tree, files, db, scanVars, visited_inodes, visited_lock,
                   dir_queue, unfinished, wk, histVars, storeVars, gone, extVars>>

\* the entry is a file that is no longer there
EntryGone(e) == e.kind = "file" /\ e.tgt \in gone

\* the directory worker w lists can be read and the entry it is at exists
Sound(w) ==
    wk[w].pc = "scan" =>
        /\ wk[w].dir \notin bad_dirs
        /\ wk[w].idx <= Len(CurListing(w)) => ~EntryGone(CurEntry(w))

\* lines 335-337: st = safe_stat(entry.path) is None: continue
StatFail(w) ==
    /\ AtEntry(w)
    /\ wk[w].dir \notin bad_dirs
    /\ EntryGone(CurEntry(w))
    /\ wk' = [wk EXCEPT ![w].idx = @ + 1]
    /\ UNCHANGED <<fsVars, db, scanVars, visited_inodes, visited_lock, dir_queue,
                   unfinished, histVars, storeVars, faultVars, extVars>>

\* mutant: the error ends the worker loop and the directory is never done
ListFailFatal(w) ==
    /\ phase = "scanning"
    /\ wk[w].pc = "scan"
    /\ wk[w].dir \in bad_dirs
    /\ wk' = [wk EXCEPT ![w].pc = "exited"]
    /\ UNCHANGED <<fsVars, db, scanVars, visited_inodes, visited_lock, dir_queue,
                   unfinished, histVars, storeVars, faultVars, extVars>>

\* lines 333 and 359-366: os.scandir or its iteration raises PermissionError,
\* FileNotFoundError or OSError; the handler logs, finally: task_done(), and
\* the loop goes back to get
ListFail(w) ==
    /\ phase = "scanning"
    /\ wk[w].pc = "scan"
    /\ wk[w].dir \in bad_dirs
    /\ unfinished' = unfinished - 1
    /\ wk' = [wk EXCEPT ![w].pc = "get"]
    /\ UNCHANGED <<fsVars, db, scanVars, visited_inodes, visited_lock, dir_queue,
                   histVars, storeVars, faultVars, extVars>>

\* a real root directory with at most one extra entry in it, a second
\* directory entry or a symlink; symlinks are not followed
FaultTrees == { t \in Trees : t.rootkind = "dir" /\ t.link.src = 1 }
InitFault ==
    InitWith({ Graph(t) : t \in FaultTrees },
             { c \in Configs : ~c.follow_symlinks /\ ~c.compute_hash /\ c.resume })

NextFault ==
    \/ FirstScanner
    \/ \E c \in RescanConfigs : NextScanner(c)
    \/ Scan
    \/ \E w \in Workers : Get(w)
    \/ \E w \in Workers : Timeout(w)
    \/ \E w \in Workers : Sound(w) /\ OtherEntry(w)
    \/ \E w \in Workers : Sound(w) /\ MarkVisitedEnter(w)
    \/ \E w \in Workers : MarkVisitedReturn(w)
    \/ \E w \in Workers : Sound(w) /\ FileStep(w)
    \/ \E w \in Workers : Sound(w) /\ TaskDone(w)
    \/ \E w \in Workers : StatFail(w)
    \/ \E w \in Workers : ListFail(w)
    \/ ScanEnd
    \/ \E f \in FileIds : Vanish(f)
    \/ \E d \in Dirs : Revoke(d)

SpecFault == InitFault /\ [][NextFault]_vars

\* the steps of worker loop w on the failing file system
WorkerStepFault(w) ==
    \/ Get(w)
    \/ Timeout(w)
    \/ Sound(w) /\ OtherEntry(w)
    \/ Sound(w) /\ MarkVisitedEnter(w)
    \/ MarkVisitedReturn(w)
    \/ Sound(w) /\ FileStep(w)
    \/ Sound(w) /\ TaskDone(w)
    \/ StatFail(w)
    \/ ListFail(w)

\* every pool thread keeps being scheduled, the main thread starts the scans
FairFault ==
    /\ InitFault
    /\ [][NextFault]_vars
    /\ WF_vars(FirstScanner)
    /\ WF_vars(Scan)
    /\ \A w \in Workers : WF_vars(WorkerStepFault(w))

(* ------------------------- scans with filters ------------------------- *)
\* --pattern, --min-size and --max-size around the two file sizes of the
\* model, 5 and 10; the other options are the defaults
FilterConfigs ==
    [follow_symlinks : {FALSE}, compute_hash : {FALSE}, resume : {TRUE},
     pattern : Patterns,
     min_size : {0, ContentSize(2), ContentSize(2) + 1, ContentSize(1),
                 ContentSize(1) + 1},
     max_size : {None, Some(ContentSize(2) - 1), Some(ContentSize(2)),
                 Some(ContentSize(1) - 1), Some(ContentSize(1))}]

InitFilter == InitWith({ Graph(t) : t \in RescanTrees }, FilterConfigs)

SpecFilter == InitFilter /\ [][Next]_vars

(* ------------------- the store, statement by statement ---------------- *)
\* the thread that calls find_duplicates
ReporterId == NumWorkers + 1

\* mutant: no mutual exclusion around the store handle
DbLockAlwaysFree(l) == TRUE

\* the lock of "with self._lock" can be taken
DbLockFree(l) == l = NoOwner

\* what a statement executed on self._conn reads: the committed table
\* overlaid with the rows of the connection's open transaction
ConnView(store, pend) ==
    [p \in DOMAIN store \cup DOMAIN pend |->
        IF p \in DOMAIN pend THEN pend[p] ELSE store[p]]

\* mutant: the transaction is never made durable
CommitDropped(store, pend) == store

\* self._conn.commit(): the rows of the open transaction become durable
Commit(store, pend) == ConnView(store, pend)

\* a regular file, lines 344-353 and process_file lines 209-235: name filter,
\* resume lookup on the shared connection (no lock is taken), size filter,
\* hash, meta; db.upsert_file(meta) is then called
FileBegin(w) ==
    /\ AtEntry(w)
    /\ EntryIsFile(CurEntry(w), cfg.follow_symlinks)
    /\ LET e == CurEntry(w)
           p == Append(wk[w].path, e.name)
           st == StatFile(e.tgt)
           row == Lookup(ConnView(db, pending), p)
           ev(a) == [run |-> run, path |-> p, file |-> e.tgt, act |-> a,
                     hashed |-> FALSE]
           skip(a) == /\ events' = events \cup {ev(a)}
                      /\ wk' = [wk EXCEPT ![w].idx = @ + 1]
                      /\ UNCHANGED <<call, hashes>>
       IN IF should_skip_by_name(cfg, e.name)
          THEN skip("skip_name") /\ UNCHANGED reads
          ELSE /\ reads' = IF cfg.resume
                           THEN [reads EXCEPT ![w] =
                                   Some([kind |-> "lookup", path |-> p, row |-> row,
                                         store |-> db, inflight |-> pending])]
                           ELSE reads
               /\ IF cfg.resume /\ ResumeSkip(row, st)
                  THEN skip("skip_resume")
                  ELSE IF SkipBySize(cfg, st.size)
                  THEN skip("skip_size")
                  ELSE /\ call' = [call EXCEPT ![w] =
                                     Some(Meta(p, st,
                                               IF cfg.compute_hash
                                               THEN sha256_file(e.tgt) ELSE None,
                                               scanned_at))]
                       /\ hashes' = IF cfg.compute_hash THEN hashes + 1 ELSE hashes
                       /\ wk' = [wk EXCEPT ![w].pc = "upsert"]
                       /\ UNCHANGED events
    /\ UNCHANGED <<fsVars, db, scanVars, visited_inodes, visited_lock, dir_queue,
                   unfinished, pushLog, claimLog, mvLog, upserts, runs, db_lock,
                   pending, rp, upLog, faultVars, extVars>>

\* upsert_file lines 105-140: take the lock, execute the INSERT ... ON
\* CONFLICT on the connection
UpsertEnter(w) ==
    /\ phase = "scanning"
    /\ wk[w].pc = "upsert"
    /\ DbLockFree(db_lock)
    /\ db_lock' = w
    /\ pending' = Upsert(pending, call[w][1])
    /\ wk' = [wk EXCEPT ![w].pc = "commit"]
    /\ UNCHANGED <<fsVars, db, scanVars, visited_inodes, visited_lock, dir_queue,
                   unfinished, histVars, call, rp, reads, upLog, faultVars, extVars>>

\* upsert_file line 141: self._conn.commit()
UpsertCommit(w) ==
    /\ phase = "scanning"
    /\ wk[w].pc = "commit"
    /\ db' = Commit(db, pending)
    /\ pending' = <<>>
    /\ upLog' = Append(upLog, call[w][1])
    /\ wk' = [wk EXCEPT ![w].pc = "return"]
    /\ UNCHANGED <<fsVars, scanVars, visited_inodes, visited_lock, dir_queue,
                   unfinished, histVars, db_lock, call, rp, reads, faultVars, extVars>>

\* the with block ends and upsert_file returns; process_file returns meta and
\* the loop goes to the next entry
UpsertReturn(w) ==
    /\ phase = "scanning"
    /\ wk[w].pc = "return"
    /\ db_lock' = IF db_lock = w THEN NoOwner ELSE db_lock
    /\ call' = [call EXCEPT ![w] = None]
    /\ upserts' = upserts + 1
    /\ events' = events \cup
            {[run |-> run, path |-> call[w][1].path, file |-> CurEntry(w).tgt,
              act |-> "process", hashed |-> cfg.compute_hash]}
    /\ wk' = [wk EXCEPT ![w].pc = "scan", ![w].idx = @ + 1]
    /\ processed' = Counted(w)
    /\ UNCHANGED <<fsVars, db, scanVars, visited_inodes, visited_lock, dir_queue,
                   unfinished, pushLog, claimLog, mvLog, hashes, runs, pending, rp,
                   reads, upLog, faultVars, interrupted, hs, cs>>

\* mutant: find_duplicates without "with self._lock"
FindEnterUnlocked ==
    /\ phase = "scanning"
    /\ rp = "out"
    /\ rp' = "in"
    /\ reads' = [reads EXCEPT ![ReporterId] =
                    Some([kind |-> "dups",
                          result |-> find_duplicates(ConnView(db, pending)),
                          store |-> db, inflight |-> pending])]
    /\ UNCHANGED <<fsVars, db, scanVars, visited_inodes, visited_lock, dir_queue,
                   unfinished, wk, histVars, db_lock, pending, call, upLog,
                   faultVars, extVars>>

\* find_duplicates lines 144-157, called by another thread while the scan
\* runs: take the lock, run the grouping query and the query per hash
FindEnter ==
    /\ phase = "scanning"
    /\ rp = "out"
    /\ DbLockFree(db_lock)
    /\ db_lock' = ReporterId
    /\ rp' = "in"
    /\ reads' = [reads EXCEPT ![ReporterId] =
                    Some([kind |-> "dups",
                          result |-> find_duplicates(ConnView(db, pending)),
                          store |-> db, inflight |-> pending])]
    /\ UNCHANGED <<fsVars, db, scanVars, visited_inodes, visited_lock, dir_queue,
                   unfinished, wk, histVars, pending, call, upLog, faultVars, extVars>>

\* find_duplicates line 158: return dup_map, the lock is released
FindReturn ==
    /\ rp = "in"
    /\ rp' = "out"
    /\ db_lock' = IF db_lock = ReporterId THEN NoOwner ELSE db_lock
    /\ UNCHANGED <<fsVars, db, scanVars, visited_inodes, visited_lock, dir_queue,
                   unfinished, wk, histVars, pending, call, reads, upLog, faultVars, extVars>>

\* scan() lines 319-321 with DB.close: "with self._lock: self._conn.close()"
CloseStore ==
    /\ DbLockFree(db_lock)
    /\ ScanEnd

\* the process dies during a scan: its threads, its lock and the open
\* transaction of its connection are gone, the database file stays
Crash ==
    /\ phase = "scanning"
    /\ phase' = "crashed"
    /\ pending' = <<>>
    /\ db_lock' = NoOwner
    /\ call' = [w \in Workers |-> None]
    /\ rp' = "out"
    /\ wk' = [w \in Workers |-> IdleWorker]
    /\ dir_queue' = <<>>
    /\ unfinished' = 0
    /\ UNCHANGED <<fsVars, db, run, cfg, scanned_at, visited_inodes, visited_lock,
                   histVars, reads, upLog, faultVars, extVars>>

\* the command is started again: DB.__init__ opens the database file
Reopen ==
    /\ phase = "crashed"
    /\ phase' = "idle"
    /\ UNCHANGED <<fsVars, db, run, cfg, scanned_at, visited_inodes, visited_lock,
                   dir_queue, unfinished, wk, histVars, storeVars, faultVars, extVars>>

\* trees without links under a real root, scanned with hashing and resume
StoreTrees == { t \in Trees : t.rootkind = "dir" /\ t.link = NoLink }
InitStore ==
    InitWith({ Graph(t) : t \in StoreTrees },
             { c \in Configs : /\ ~c.follow_symlinks /\ c.compute_hash /\ c.resume
                               /\ NoFilters(c) })

\* the command is run again with or without --no-resume
StoreConfigs == { c \in RescanConfigs : c.compute_hash = cfg.compute_hash }

NextStore ==
    \/ FirstScanner
    \/ \E c \in StoreConfigs : NextScanner(c)
    \/ Scan
    \/ \E w \in Workers : Get(w)
    \/ \E w \in Workers : Timeout(w)
    \/ \E w \in Workers : MarkVisitedEnter(w)
    \/ \E w \in Workers : MarkVisitedReturn(w)
    \/ \E w \in Workers : FileBegin(w)
    \/ \E w \in Workers : UpsertEnter(w)
    \/ \E w \in Workers : UpsertCommit(w)
    \/ \E w \in Workers : UpsertReturn(w)
    \/ \E w \in Workers : TaskDone(w)
    \/ FindEnter
    \/ FindReturn
    \/ CloseStore
    \/ Crash
    \/ Reopen

SpecStore == InitStore /\ [][NextStore]_vars

\* one scan, statement by statement, with a name filter and a lower size
\* bound, resume on
NextOrder ==
    \/ FirstScanner
    \/ Scan
    \/ \E w \in Workers : Get(w)
    \/ \E w \in Workers : Timeout(w)
    \/ \E w \in Workers : MarkVisitedEnter(w)
    \/ \E w \in Workers : MarkVisitedReturn(w)
    \/ \E w \in Workers : FileBegin(w)
    \/ \E w \in Workers : UpsertEnter(w)
    \/ \E w \in Workers : UpsertCommit(w)
    \/ \E w \in Workers : UpsertReturn(w)
    \/ \E w \in Workers : TaskDone(w)
    \/ CloseStore

SpecOrder ==
    /\ InitWith({ Graph(t) : t \in StoreTrees },
                { c \in FilterConfigs : c.max_size = None })
    /\ [][NextOrder]_vars

(* ----------------------- the DB object on its own --------------------- *)

\* the metas handed to upsert_file: three paths, rows with and without a hash
HarnessPaths == { <<FileNames[1]>>, <<FileNames[2]>>, <<DirNames[2], FileNames[3]>> }
HarnessMetas ==
    [path : HarnessPaths, size : {ContentSize(1), ContentSize(2)}, mtime : {1},
     dev : {1}, inode : {FileIno(1)}, sha256 : {None, Some(Digest(1)), Some(Digest(2))},
     scanned_at : {1}]

\* DB(path) alone, no scanner: the table is empty
InitDB ==
    InitWith({ Graph(CHOOSE t \in Trees :
                  /\ t.rootkind = "dir" /\ t.link = NoLink
                  /\ \A d \in Dirs : t.parent[d] = 1) },
             { c \in DefaultConfigs : ~c.follow_symlinks })

\* db.upsert_file(m) by a single caller: lock, INSERT ... ON CONFLICT, commit
UpsertFile(m) ==
    /\ phase = "idle" /\ run = 0
    /\ Len(upLog) < MaxUpserts
    /\ db' = Upsert(db, m)
    /\ upLog' = Append(upLog, m)
    /\ UNCHANGED <<fsVars, scanVars, visited_inodes, visited_lock, dir_queue,
                   unfinished, wk, histVars, db_lock, pending, call, rp, reads,
                   faultVars, extVars>>

\* db.find_duplicates() by a single caller
FindDuplicates ==
    /\ phase = "idle" /\ run = 0
    /\ reads' = [reads EXCEPT ![ReporterId] =
                    Some([kind |-> "dups", result |-> find_duplicates(db),
                          store |-> db, inflight |-> pending])]
    /\ UNCHANGED <<fsVars, db, scanVars, visited_inodes, visited_lock, dir_queue,
                   unfinished, wk, histVars, db_lock, pending, call, rp, upLog,
                   faultVars, extVars>>

NextDB ==
    \/ \E m \in HarnessMetas : UpsertFile(m)
    \/ FindDuplicates

SpecDB == InitDB /\ [][NextDB]_vars

(* ------------- find_duplicates, query by query, with writers ---------- *)
\* find_duplicates lines 146-153: SELECT sha256, COUNT(*) c ... WHERE
\* sha256 IS NOT NULL GROUP BY sha256 HAVING c > 1
GroupingQuery(store) ==
    { h \in { store[p].sha256[1] : p \in { q \in DOMAIN store : store[q].sha256 # None } } :
         Cardinality({ p \in DOMAIN store : store[p].sha256 = Some(h) }) > 1 }

\* find_duplicates lines 156-157: SELECT path, size, mtime ... WHERE
\* sha256 = ? ORDER BY path, on the store as it is when the query runs
MembersQuery(store, h) ==
    LET ps == SortPaths({ p \in DOMAIN store : store[p].sha256 = Some(h) })
    IN [i \in 1..Len(ps) |-> <<ps[i], store[ps[i]].size, store[ps[i]].mtime>>]

\* upsert_file line 105 by a writer thread: "with self._lock:" around the
\* statement and the commit
UpsertLocked(m) ==
    /\ DbLockFree(db_lock)
    /\ UpsertFile(m)

\* find_duplicates lines 144-153: take the lock, run the grouping query
FindGroup ==
    /\ phase = "idle" /\ run = 0
    /\ rp = "out"
    /\ DbLockFree(db_lock)
    /\ db_lock' = ReporterId
    /\ rp' = "in"
    /\ reads' = [reads EXCEPT ![ReporterId] =
                    Some([kind |-> "dups", result |-> <<>>, store |-> db,
                          inflight |-> pending, todo |-> GroupingQuery(db)])]
    /\ UNCHANGED <<fsVars, db, scanVars, visited_inodes, visited_lock, dir_queue,
                   unfinished, wk, histVars, pending, call, upLog, faultVars, extVars>>

\* find_duplicates lines 155-157: the member query of one listed hash
FindMembers(h) ==
    /\ rp = "in"
    /\ h \in reads[ReporterId][1].todo
    /\ LET r == reads[ReporterId][1]
       IN reads' = [reads EXCEPT ![ReporterId] =
                       Some([r EXCEPT
                               !.result = [x \in DOMAIN r.result \cup {h} |->
                                             IF x = h THEN MembersQuery(db, h)
                                             ELSE r.result[x]],
                               !.todo = @ \ {h}])]
    /\ UNCHANGED <<fsVars, db, scanVars, visited_inodes, visited_lock, dir_queue,
                   unfinished, wk, histVars, db_lock, pending, call, rp, upLog,
                   faultVars, extVars>>

\* find_duplicates line 158: every listed hash is done, return dup_map
FindDone ==
    /\ rp = "in"
    /\ reads[ReporterId][1].todo = {}
    /\ FindReturn

NextFind ==
    \/ \E m \in HarnessMetas : UpsertLocked(m)
    \/ FindGroup
    \/ \E h \in { Digest(1), Digest(2) } : FindMembers(h)
    \/ FindDone

SpecFind == InitDB /\ [][NextFind]_vars

(* ------------------- errors while one entry is handled ---------------- *)
\* lines 338 and 344, 359-366: entry.is_dir() or entry.is_file() raises an
\* OSError (PermissionError included); the try around the entry has no
\* handler, so the handlers of the directory catch it: the rest of the
\* listing is dropped, finally: task_done(), and the loop goes back to get
TypeCheckFail(w) ==
    /\ AtEntry(w)
    /\ changes < MaxChanges
    /\ changes' = changes + 1
    /\ LET e == CurEntry(w)
       IN events' = events \cup {[run |-> run, path |-> Append(wk[w].path, e.name),
                                  file |-> e.tgt, act |-> "type_error",
                                  hashed |-> FALSE]}
    /\ unfinished' = unfinished - 1
    /\ wk' = [wk EXCEPT ![w].pc = "get"]
    /\ UNCHANGED <<auxVars, tree, files, db, scanVars, visited_inodes, visited_lock,
                   dir_queue, pushLog, claimLog, mvLog, hashes, upserts, runs>>

\* lines 348-351, 359-366: the resume lookup raises an sqlite3.Error, which
\* no handler of the loop names: finally: task_done(), and the exception
\* leaves _dir_scan_loop, so this worker handles nothing more
LookupFail(w) ==
    /\ AtEntry(w)
    /\ EntryIsFile(CurEntry(w), cfg.follow_symlinks)
    /\ ~should_skip_by_name(cfg, CurEntry(w).name)
    /\ cfg.resume
    /\ changes < MaxChanges
    /\ changes' = changes + 1
    /\ LET e == CurEntry(w)
       IN events' = events \cup {[run |-> run, path |-> Append(wk[w].path, e.name),
                                  file |-> e.tgt, act |-> "lookup_error",
                                  hashed |-> FALSE]}
    /\ unfinished' = unfinished - 1
    /\ wk' = [wk EXCEPT ![w].pc = "exited"]
    /\ UNCHANGED <<auxVars, tree, files, db, scanVars, visited_inodes, visited_lock,
                   dir_queue, pushLog, claimLog, mvLog, hashes, upserts, runs>>

\* the file at entry e is one process_file goes on to hash and write
Processes(w) ==
    /\ AtEntry(w)
    /\ EntryIsFile(CurEntry(w), cfg.follow_symlinks)
    /\ ~should_skip_by_name(cfg, CurEntry(w).name)
    /\ ~(cfg.resume /\ ResumeSkip(Lookup(db, Append(wk[w].path, CurEntry(w).name)),
                                  StatFile(CurEntry(w).tgt)))
    /\ ~SkipBySize(cfg, StatFile(CurEntry(w).tgt).size)

\* sha256_file lines 79-85 and process_file lines 217-235: the file cannot be
\* read; sha256_file logs and returns None, and the row is written with
\* sha256 NULL (the files table has no other column to tell the failure)
HashFail(w) ==
    /\ Processes(w)
    /\ cfg.compute_hash
    /\ changes < MaxChanges
    /\ changes' = changes + 1
    /\ LET e == CurEntry(w)
           p == Append(wk[w].path, e.name)
       IN /\ events' = events \cup {[run |-> run, path |-> p, file |-> e.tgt,
                                     act |-> "process", hashed |-> FALSE]}
          /\ db' = Upsert(db, Meta(p, StatFile(e.tgt), None, scanned_at))
    /\ hashes' = hashes + 1
    /\ upserts' = upserts + 1
    /\ wk' = [wk EXCEPT ![w].idx = @ + 1]
    /\ processed' = Counted(w)
    /\ UNCHANGED <<storeVars, faultVars, interrupted, hs, cs,
                   tree, files, scanVars, visited_inodes, visited_lock,
                   dir_queue, unfinished, pushLog, claimLog, mvLog, runs>>

\* mutant: the exception of the write leaves the worker loop
UpsertFailFatal(w) ==
    /\ Processes(w)
    /\ changes < MaxChanges
    /\ changes' = changes + 1
    /\ LET e == CurEntry(w)
       IN events' = events \cup {[run |-> run, path |-> Append(wk[w].path, e.name),
                                  file |-> e.tgt, act |-> "upsert_failed",
                                  hashed |-> cfg.compute_hash]}
    /\ hashes' = IF cfg.compute_hash THEN hashes + 1 ELSE hashes
    /\ upserts' = upserts + 1
    /\ unfinished' = unfinished - 1
    /\ wk' = [wk EXCEPT ![w].pc = "exited"]
    /\ UNCHANGED <<auxVars, tree, files, db, scanVars, visited_inodes, visited_lock,
                   dir_queue, pushLog, claimLog, mvLog, runs>>

\* process_file lines 237-242: db.upsert_file(meta) raises (the statement
\* fails, nothing is left in the transaction); except Exception logs a
\* warning, process_file returns meta and the loop takes the next entry
UpsertFail(w) ==
    /\ Processes(w)
    /\ changes < MaxChanges
    /\ changes' = changes + 1
    /\ LET e == CurEntry(w)
       IN events' = events \cup {[run |-> run, path |-> Append(wk[w].path, e.name),
                                  file |-> e.tgt, act |-> "upsert_failed",
                                  hashed |-> cfg.compute_hash]}
    /\ hashes' = IF cfg.compute_hash THEN hashes + 1 ELSE hashes
    /\ upserts' = upserts + 1
    /\ wk' = [wk EXCEPT ![w].idx = @ + 1]
    /\ processed' = Counted(w)
    /\ UNCHANGED <<storeVars, faultVars, interrupted, hs, cs,
                   tree, files, db, scanVars, visited_inodes, visited_lock,
                   dir_queue, unfinished, pushLog, claimLog, mvLog, runs>>

\* one scan of a tree under a real root, symlinks not followed, with and
\* without --hash; at most MaxChanges errors happen
InitError ==
    InitWith({ Graph(t) : t \in FaultTrees },
             { c \in Configs : ~c.follow_symlinks /\ c.resume /\ NoFilters(c) })

NextError ==
    \/ Next
    \/ \E w \in Workers : TypeCheckFail(w)
    \/ \E w \in Workers : LookupFail(w)
    \/ \E w \in Workers : HashFail(w)
    \/ \E w \in Workers : UpsertFail(w)

SpecError == InitError /\ [][NextError]_vars

\* scans and rescans of a changing tree, and sha256_file may fail on a file that is being processed
NextRehash ==
    \/ NextRescan
    \/ \E w \in Workers : HashFail(w)

SpecRehash == InitRescan /\ [][NextRehash]_vars

(* -------------------- main(): one run of the command ------------------ *)
\* mutant: the root is taken to be there without a stat
RootExistsAlways(g) == TRUE

\* scan() lines 294-295: safe_stat(self.root) returns a status
RootExists(g) == g.rootkind # "missing"

\* main() line 383, NASScanner.__init__ line 187, DB.__init__ lines 93-99:
\* sqlite3.connect or the schema script raises; main() has not entered its
\* try yet, so the exception ends the process
OpenFail ==
    /\ phase = "idle"
    /\ run = 0
    /\ phase' = "aborted"
    /\ UNCHANGED <<auxVars, fsVars, db, run, cfg, scanned_at, visited_inodes,
                   visited_lock, dir_queue, unfinished, wk, histVars>>

\* scan() lines 294-296: the root has no status, raise FileNotFoundError;
\* this is before the try of scan(), so the store stays open
ScanFail ==
    /\ phase = "ready"
    /\ ~RootExists(tree)
    /\ phase' = "failed"
    /\ UNCHANGED <<auxVars, fsVars, db, run, cfg, scanned_at, visited_inodes,
                   visited_lock, dir_queue, unfinished, wk, histVars>>

\* scan() lines 294-312 when the root has a status
ScanStart == RootExists(tree) /\ Scan

\* a KeyboardInterrupt reaches the main thread while it waits in
\* as_completed (lines 315-317): scan() goes to its finally,
\* pool.shutdown(wait=True), which waits for the worker loops to return;
\* nothing tells the worker loops
Interrupt ==
    /\ phase = "scanning"
    /\ interrupted = None
    /\ interrupted' = Some(Len(claimLog))
    /\ UNCHANGED <<fsVars, db, scanVars, visited_inodes, visited_lock, dir_queue,
                   unfinished, wk, histVars, storeVars, faultVars, hs, cs, processed>>

\* the connection of scanner.db is open: scan() has not reached db.close()
StoreOpen == phase \in {"ready", "scanning", "failed"}

\* main() lines 403-414, finally: dups = scanner.db.find_duplicates(); on the
\* closed connection conn.cursor() raises sqlite3.ProgrammingError and no
\* summary is logged
MainReport ==
    /\ phase \in {"idle", "failed"}
    /\ run >= 1
    /\ rp = "out"
    /\ IF StoreOpen
       THEN /\ rp' = "reported"
            /\ reads' = [reads EXCEPT ![ReporterId] =
                           Some([kind |-> "dups", result |-> find_duplicates(db),
                                 store |-> db, inflight |-> pending])]
       ELSE /\ rp' = "failed"
            /\ UNCHANGED reads
    /\ UNCHANGED <<fsVars, db, scanVars, visited_inodes, visited_lock, dir_queue,
                   unfinished, wk, histVars, db_lock, pending, call, upLog,
                   faultVars, extVars>>

\* trees under a root that is there or not
MainTrees == FaultTrees \cup
             [rootkind : {"missing"}, parent : Skeletons, link : {NoLink}]
InitMain ==
    InitWith({ Graph(t) : t \in MainTrees },
             { c \in Configs : ~c.follow_symlinks /\ c.resume /\ NoFilters(c) })

NextMain ==
    \/ FirstScanner
    \/ OpenFail
    \/ ScanFail
    \/ ScanStart
    \/ \E w \in Workers : Get(w)
    \/ \E w \in Workers : Timeout(w)
    \/ \E w \in Workers : OtherEntry(w)
    \/ \E w \in Workers : MarkVisitedEnter(w)
    \/ \E w \in Workers : MarkVisitedReturn(w)
    \/ \E w \in Workers : FileStep(w)
    \/ \E w \in Workers : TaskDone(w)
    \/ Interrupt
    \/ ScanEnd
    \/ MainReport

SpecMain == InitMain /\ [][NextMain]_vars

(* ------------------ CatalogScanner.scan (geo-nas-catalog) ------------- *)
\* file names as <<stem, suffix>>; a file on disk is <<directory, stem, suffix>>
\* with directory "" for the root itself
DataNames == <<<<"data", ".csv">>, <<"data", ".txt">>, <<"grid", ".nc">>,
               <<"book", ".xlsx">>, <<"blob", ".bin">>>>
ExcludeDirs == {".git", "__pycache__"}

\* CatalogScanner._detect_format
detect_format(ext) ==
    IF ext \in {".nc", ".nc4", ".cdf", ".netcdf"} THEN "netcdf"
    ELSE IF ext = ".csv" THEN "csv"
    ELSE IF ext = ".txt" THEN "txt"
    ELSE IF ext \in {".xls", ".xlsx"} THEN "xlsx"
    ELSE "other"

\* the files that are in directory d of disk
FilesIn(disk, d) == { f \in disk : f[1] = d }

\* the test's set-up: data files are created in the root or in a
\* subdirectory of it, and ScanConfig is built (no extension limit, no
\* resume) with an output directory under the root or elsewhere
CatSetup(place, outdir) ==
    /\ cs = None
    /\ LET data == { <<place[i], DataNames[i][1], DataNames[i][2]>> :
                       i \in { j \in 1..NumData : place[j] # "absent" } }
       IN cs' = Some([pc |-> "start", outdir |-> outdir, placed |-> data,
                      disk |-> data, todo |-> {}, names |-> {},
                      entries |-> <<>>])
    /\ UNCHANGED <<fsVars, db, scanVars, visited_inodes, visited_lock, dir_queue,
                   unfinished, wk, histVars, storeVars, faultVars, interrupted, hs, processed>>

\* scan() lines 203-216 and CatalogWriter.__init__: the root exists; the
\* writer creates the output directory and opens catalog.jsonl for appending,
\* which creates the file; os.walk is about to list the root
CatOpen ==
    /\ cs # None
    /\ cs[1].pc = "start"
    /\ cs' = Some([cs[1] EXCEPT !.pc = "walk",
                                !.disk = @ \cup {<<cs[1].outdir, "catalog", ".jsonl">>},
                                !.todo = {""}])
    /\ UNCHANGED <<fsVars, db, scanVars, visited_inodes, visited_lock, dir_queue,
                   unfinished, wk, histVars, storeVars, faultVars, interrupted, hs, processed>>

\* lines 221-224: os.walk lists the next directory as it comes to it, the
\* root first; the subdirectories of the root that are not excluded are
\* walked after the files of the root
CatWalk(d) ==
    /\ cs # None
    /\ cs[1].pc = "walk"
    /\ cs[1].names = {}
    /\ d \in cs[1].todo
    /\ LET sub == { f[1] : f \in cs[1].disk } \ ({"", "elsewhere"} \cup ExcludeDirs)
       IN cs' = Some([cs[1] EXCEPT !.names = FilesIn(cs[1].disk, d),
                                   !.todo = (@ \ {d}) \cup
                                            (IF d = "" THEN sub ELSE {})])
    /\ UNCHANGED <<fsVars, db, scanVars, visited_inodes, visited_lock, dir_queue,
                   unfinished, wk, histVars, storeVars, faultVars, interrupted, hs, processed>>

\* lines 225-281, one file of the listing: stat, base fields with the format
\* of the suffix, extract, CatalogEntry, writer.append (which writes
\* catalog.parquet), yield
CatFile(f) ==
    /\ cs # None
    /\ cs[1].pc = "walk"
    /\ f \in cs[1].names
    /\ cs' = Some([cs[1] EXCEPT
                     !.names = @ \ {f},
                     !.entries = Append(@, [path |-> f, format |-> detect_format(f[3])]),
                     !.disk = @ \cup {<<cs[1].outdir, "catalog", ".parquet">>}])
    /\ UNCHANGED <<fsVars, db, scanVars, visited_inodes, visited_lock, dir_queue,
                   unfinished, wk, histVars, storeVars, faultVars, interrupted, hs, processed>>

\* lines 282-286: the walk is exhausted; finally: the writer is closed and
\* the state file is written
CatClose ==
    /\ cs # None
    /\ cs[1].pc = "walk"
    /\ cs[1].names = {}
    /\ cs[1].todo = {}
    /\ cs' = Some([cs[1] EXCEPT !.pc = "done",
                                !.disk = @ \cup {<<cs[1].outdir, "scan_state", ".json">>}])
    /\ UNCHANGED <<fsVars, db, scanVars, visited_inodes, visited_lock, dir_queue,
                   unfinished, wk, histVars, storeVars, faultVars, interrupted, hs, processed>>

InitCat == InitWith({Graph([rootkind |-> "dir", parent |-> [d \in Dirs |-> 1],
                            link |-> NoLink])},
                    { c \in DefaultConfigs : ~c.follow_symlinks })

NextCat ==
    \/ \E place \in [1..NumData -> {"absent", "", "sub"}],
          outdir \in {"out", "elsewhere"} : CatSetup(place, outdir)
    \/ CatOpen
    \/ \E d \in {"", "sub", "out"} : CatWalk(d)
    \/ \E f \in {"", "sub", "out"} \X {"data", "grid", "book", "blob", "catalog"}
                \X {".csv", ".txt", ".nc", ".xlsx", ".bin", ".jsonl", ".parquet"} :
          CatFile(f)
    \/ CatClose

SpecCat == InitCat /\ [][NextCat]_vars

(* ------------------------- streaming file hashes ---------------------- *)
\* the contents of a file: up to MaxLen bytes, each 0 or 1
Contents == UNION { [1..n -> {0, 1}] : n \in 0..MaxLen }

\* hashlib: a new digest object, and update(data), which absorbs the bytes
\* of data in order; hexdigest() reads the state
HashNew == 7
RECURSIVE HashUpdate(_, _)
HashUpdate(h, data) ==
    IF data = <<>> THEN h
    ELSE HashUpdate((h * 31 + Head(data) + 1) % 1009, Tail(data))

\* mutant: a read that returns nothing when less than a full block is left
ReadFullOnly(content, pos, n) ==
    IF pos + n <= Len(content) THEN SubSeq(content, pos + 1, pos + n) ELSE <<>>

\* handle.read(n) at offset pos: the next n bytes, fewer at the end of the
\* file, none after it
Read(content, pos, n) ==
    SubSeq(content, pos + 1, IF pos + n <= Len(content) THEN pos + n ELSE Len(content))

\* file_sha1 lines 11-12, sha256_file lines 74-76: a digest object is made
\* and the file is opened
HashOpen(content, block) ==
    /\ hs = None
    /\ hs' = Some([content |-> content, block |-> block, pos |-> 0,
                   h |-> HashNew, pc |-> "read"])
    /\ UNCHANGED <<fsVars, db, scanVars, visited_inodes, visited_lock, dir_queue,
                   unfinished, wk, histVars, storeVars, faultVars, interrupted, cs, processed>>

\* file_sha1 lines 13-15, sha256_file lines 77-82: read a block; an empty
\* read ends the loop and the digest is returned, any other is fed to update
HashRead ==
    /\ hs # None
    /\ hs[1].pc = "read"
    /\ LET data == Read(hs[1].content, hs[1].pos, hs[1].block)
       IN hs' = IF data = <<>>
                THEN Some([hs[1] EXCEPT !.pc = "done"])
                ELSE Some([hs[1] EXCEPT !.h = HashUpdate(@, data),
                                        !.pos = @ + Len(data)])
    /\ UNCHANGED <<fsVars, db, scanVars, visited_inodes, visited_lock, dir_queue,
                   unfinished, wk, histVars, storeVars, faultVars, interrupted, cs, processed>>

NextHash ==
    \/ \E content \in Contents, block \in 1..MaxBlock : HashOpen(content, block)
    \/ HashRead

\* no scanner is involved: the initial state is that of SpecCat
SpecHash == InitCat /\ [][NextHash]_vars

(* ------------------------- hard links to files ------------------------ *)
\* trees under a real root with one extra entry: a second name (hard link)
\* of one of the files, in any directory, or a symlink to a directory
LinkTrees == [rootkind : {"dir"}, parent : Skeletons,
              link : [src : Dirs, kind : {"file", "symdir"}, tgt : Dirs]]
SpecLink ==
    /\ InitWith({ Graph(t) : t \in LinkTrees },
                { c \in Configs : ~c.follow_symlinks /\ c.resume /\ NoFilters(c) })
    /\ [][Next]_vars

(* ------------------------ symlinks, not followed ---------------------- *)
\* trees under a real root with one symlink in any directory, to a directory
\* or to a file, scanned with follow_symlinks off
SymTrees == [rootkind : {"dir"}, parent : Skeletons,
             link : [src : Dirs, kind : {"symdir", "symfile"}, tgt : Dirs]]
SpecSym ==
    /\ InitWith({ Graph(t) : t \in SymTrees },
                { c \in Configs : ~c.follow_symlinks /\ c.resume /\ NoFilters(c) })
    /\ [][Next]_vars

(* ---------------------------- the claims ------------------------------ *)
AllExited == \A w \in Workers : wk[w].pc = "exited"
RunOver == run >= 1 /\ phase = "idle"

\* the logical path of directory d in the skeleton, and of its file
RECURSIVE PathOf(_, _)
PathOf(t, d) == IF d = 1 THEN <<>> ELSE Append(PathOf(t, t.parent[d]), DirNames[d])
FilePath(t, d) == Append(PathOf(t, d), FileNames[d])

Pushes(d) == { i \in DOMAIN pushLog : pushLog[i].dir = d }
Claims(d) == { i \in DOMAIN claimLog : claimLog[i].dir = d }

\* C1: within one run every physical directory, the root included, is put on
\* the work queue at most once, whatever paths reach it and however the
\* workers interleave.
C1_EnqueuedAtMostOnce == \A d \in Dirs : Cardinality(Pushes(d)) <= 1

\* C2: mark_visited returns true on the first call for a (device, inode) pair
\* of the run and false on every later call for that pair.
C2_FirstTrueThenFalse ==
    \A k \in DOMAIN mvLog : \A i \in 1..Len(mvLog[k]) : mvLog[k][i] = (i = 1)

C2_Witness == \E k \in DOMAIN mvLog : Len(mvLog[k]) >= 2

\* worker w is inside mark_visited, between the membership test and the insert
InMarkVisited(w) == phase = "scanning" /\ wk[w].pc = "marking"
MarkingKey(w) == VisitKey(StatDir(CurEntry(w).tgt))

\* C3: the check-and-insert of mark_visited is atomic: at most one caller is
\* between the membership test and the insert, so two callers never both see
\* "not visited" for one pair, and exactly one call per pair returns true.
C3_MarkVisitedAtomic ==
    /\ \A w1, w2 \in Workers :
          (w1 # w2 /\ InMarkVisited(w1) /\ InMarkVisited(w2)) =>
              ~(MarkingKey(w1) = MarkingKey(w2) /\ ~wk[w1].seen /\ ~wk[w2].seen)
    /\ \A w1, w2 \in Workers : (InMarkVisited(w1) /\ InMarkVisited(w2)) => w1 = w2
    /\ \A k \in DOMAIN mvLog :
          Cardinality({ i \in 1..Len(mvLog[k]) : mvLog[k][i] }) = 1

\* two workers are at entries naming the same directory, one inside
\* mark_visited having seen "not visited", the other waiting for the lock
C3_Witness ==
    \E w1, w2 \in Workers :
        /\ w1 # w2
        /\ InMarkVisited(w1) /\ ~wk[w1].seen
        /\ AtEntry(w2) /\ EntryIsDir(CurEntry(w2), cfg.follow_symlinks)
        /\ MarkingKey(w2) = MarkingKey(w1)

\* the graph has a cycle and the scan follows symlinks
CycleCase == cfg.follow_symlinks /\ HasCycle(tree)

\* C4: on a directory graph with a symlink or hard-link cycle, a scan that
\* follows symlinks terminates (every worker loop exits) and lists each
\* physical directory at most once.
C4_CycleSafe ==
    /\ [](CycleCase => \A d \in Dirs : Cardinality(Claims(d)) <= 1)
    /\ (CycleCase /\ phase = "scanning") ~> (CycleCase /\ AllExited)

\* the scan of a cyclic graph is over, the directory the cycle leads back to
\* was reached a second time and refused
C4_Witness ==
    /\ CycleCase /\ phase = "scanning" /\ AllExited
    /\ \A d \in Dirs : Cardinality(Claims(d)) = 1
    /\ \E k \in DOMAIN mvLog : Len(mvLog[k]) >= 2

\* C5: a tree with N regular files, scanned without filters into an empty
\* store, ends with exactly N rows, one per file path.
C5_Completeness ==
    (RunOver /\ run = 1 /\ tree.link = NoLink /\ NoFilters(cfg)) =>
        /\ DOMAIN db = { FilePath(tree, d) : d \in Dirs }
        /\ Cardinality(DOMAIN db) = NumDirs

C5_Witness ==
    /\ RunOver /\ run = 1 /\ tree.link = NoLink /\ NoFilters(cfg)
    /\ tree.parent[NumDirs] # 1
    /\ Cardinality(DOMAIN db) = NumDirs

PassesFilters(c, name, size) ==
    /\ (c.pattern # None => name \in c.pattern[1])
    /\ size >= c.min_size
    /\ (c.max_size # None => size <= c.max_size[1])

StoredUnchanged(p, f) ==
    /\ p \in DOMAIN db
    /\ db[p].size = files[f].size
    /\ db[p].mtime = files[f].mtime

ResumeRuleAt(w) ==
    LET e == CurEntry(w)
        p == Append(wk[w].path, e.name)
    IN (FileStep(w) /\ cfg.resume /\ PassesFilters(cfg, e.name, files[e.tgt].size)) =>
          IF StoredUnchanged(p, e.tgt)
          THEN db' = db /\ hashes' = hashes /\ upserts' = upserts
          ELSE /\ upserts' = upserts + 1
               /\ hashes' = hashes + (IF cfg.compute_hash THEN 1 ELSE 0)
               /\ p \in DOMAIN db'
               /\ db'[p].size = files[e.tgt].size
               /\ db'[p].mtime = files[e.tgt].mtime
               /\ db'[p].scanned_at = scanned_at

Processed(r) == { e.file : e \in { x \in events : x.run = r /\ x.act = "process" } }
ResumeSkipped(r) ==
    { e.file : e \in { x \in events : x.run = r /\ x.act = "skip_resume" } }
\* the files whose modification time, or whose content, differs between the
\* first scan and the second
Touched == { f \in FileIds : runs[2].files[f].mtime # runs[1].files[f].mtime }
Rewritten == { f \in FileIds : runs[2].files[f].content # runs[1].files[f].content }

\* two scans without filters, the second with resume, exactly one file touched
\* in between
TouchScenario ==
    /\ Len(runs) >= 2
    /\ NoFilters(runs[1].cfg) /\ NoFilters(runs[2].cfg)
    /\ runs[2].cfg.resume
    /\ Cardinality(Touched) = 1 /\ Rewritten = {}

\* C7: with resume on, a file that passes the name and size filters is skipped
\* entirely (no hash, no upsert, store untouched) exactly when the store has a
\* row for its path with the size and modification time of the captured
\* status, and is otherwise hashed as configured and upserted; so after a full
\* scan and a touch of one file a resume scan re-processes that file only.
C7_ResumeRule ==
    /\ [][\A w \in Workers : ResumeRuleAt(w)]_vars
    /\ [](TouchScenario =>
            (Processed(2) = Touched /\ ResumeSkipped(2) = FileIds \ Touched))

C7_Witness ==
    /\ TouchScenario
    /\ Cardinality(Processed(2)) = 1
    /\ Cardinality(ResumeSkipped(2)) = NumDirs - 1

\* C8: with resume and hashing on, a file whose row has the size and
\* modification time of the file but no content hash is not skipped: no file
\* is resume-skipped in a hashing run while its row lacks a hash.
C8_RehashWhenHashMissing ==
    (run >= 1 /\ cfg.resume /\ cfg.compute_hash) =>
        \A e \in events :
            (e.run = run /\ e.act = "skip_resume") => db[e.path].sha256 # None

\* the tree was scanned twice with the same options, resume on, no file changed
SameTreeTwice ==
    /\ Len(runs) >= 2
    /\ runs[2].files = runs[1].files
    /\ runs[1].cfg = runs[2].cfg
    /\ runs[2].cfg.resume

\* C9: scanning an unchanged tree twice with resume on and the same options
\* leaves the store after the second scan as it was after the first, and the
\* second scan hashes and upserts nothing.
C9_Idempotent ==
    SameTreeTwice =>
        /\ runs[2].db = runs[1].db
        /\ runs[2].hashes = runs[1].hashes
        /\ runs[2].upserts = runs[1].upserts
        /\ Processed(2) = {}

C9_Witness ==
    /\ SameTreeTwice
    /\ NoFilters(runs[1].cfg) /\ runs[1].cfg.compute_hash
    /\ Cardinality(DOMAIN runs[2].db) = NumDirs
    /\ ResumeSkipped(2) = FileIds

\* C10 as stated: a resume re-scan of an unchanged path sets the row's
\* last-scanned timestamp to the timestamp of the new run.
C10_LastScannedUpdated ==
    (run >= 2 /\ cfg.resume) =>
        \A e \in events :
            (e.run = run /\ e.act = "skip_resume") =>
                db[e.path].scanned_at = scanned_at

\* C10 as amended: a resume re-scan of an unchanged path writes nothing: the
\* row keeps the last-scanned timestamp of the earlier run that processed the
\* path, and the hash is not recomputed.
C10_LastScannedKept ==
    (run >= 2 /\ cfg.resume) =>
        \A e \in events :
            (e.run = run /\ e.act = "skip_resume") =>
                /\ ~e.hashed
                /\ db[e.path].scanned_at < scanned_at
                /\ \E x \in events :
                      /\ x.path = e.path /\ x.act = "process" /\ x.run < run
                      /\ db[e.path].scanned_at = Clock(x.run - 1)

C10_Witness ==
    /\ run >= 2 /\ cfg.resume /\ cfg.compute_hash
    /\ \E e \in events :
          /\ e.run = run /\ e.act = "skip_resume"
          /\ db[e.path].sha256 # None

\* the rows of the table, and the last meta upsert_file was given for path p
Rows(store) == { store[p] : p \in DOMAIN store }
UpsertsOf(p) == { i \in DOMAIN upLog : upLog[i].path = p }
LastUpsertOf(p) == upLog[CHOOSE i \in UpsertsOf(p) : \A j \in UpsertsOf(p) : j <= i]

\* C11: after any sequence of upserts the store holds at most one row per
\* path, that row carries the fields of the last upsert for the path, and
\* applying a record a second time leaves the store as after the first time.
C11_UpsertKeyedIdempotent ==
    /\ \A p \in HarnessPaths :
          Cardinality({ r \in Rows(db) : r.path = p }) <= 1
    /\ \A p \in HarnessPaths :
          IF UpsertsOf(p) = {} THEN p \notin DOMAIN db
          ELSE p \in DOMAIN db /\ db[p] = LastUpsertOf(p)
    /\ \A m \in HarnessMetas : Upsert(Upsert(db, m), m) = Upsert(db, m)
    /\ \A i \in DOMAIN upLog :
          (i > 1 /\ upLog[i] = upLog[i - 1] /\ i = Len(upLog)) =>
              db = Upsert(db, upLog[i])

\* a path was upserted twice with different fields, and a record was applied
\* twice in a row
C11_Witness ==
    /\ \E i, j \in DOMAIN upLog :
          i < j /\ upLog[i].path = upLog[j].path /\ upLog[i] # upLog[j]
    /\ \E i \in DOMAIN upLog : i > 1 /\ upLog[i] = upLog[i - 1]

\* the non-null hashes of a table and the paths of the rows with hash h
HashesOf(store) ==
    { store[p].sha256[1] : p \in { q \in DOMAIN store : store[q].sha256 # None } }
SharedBy(store, h) == { p \in DOMAIN store : store[p].sha256 = Some(h) }
\* the last result of find_duplicates and the table it was computed on
LastReport == reads[ReporterId][1]
Reported == reads[ReporterId] # None /\ reads[ReporterId][1].kind = "dups"

\* C15: find_duplicates returns exactly the hashes shared by two or more rows
\* with a non-null hash; each group lists every row with that hash as (path,
\* size, mtime), ordered by path; rows with a null hash and hashes with a
\* single row never appear.
C15_FindDuplicates ==
    Reported =>
        LET res == LastReport.result
            st == LastReport.store
        IN /\ DOMAIN res = { h \in HashesOf(st) : Cardinality(SharedBy(st, h)) >= 2 }
           /\ \A h \in DOMAIN res :
                 /\ Len(res[h]) = Cardinality(SharedBy(st, h))
                 /\ { res[h][i] : i \in DOMAIN res[h] }
                      = { <<p, st[p].size, st[p].mtime>> : p \in SharedBy(st, h) }
                 /\ \A i, j \in DOMAIN res[h] :
                       i < j => PathLess(res[h][i][1], res[h][j][1])
           /\ \A p \in DOMAIN st :
                 (st[p].sha256 = None \/ Cardinality(SharedBy(st, st[p].sha256[1])) = 1)
                    => \A h \in DOMAIN res : \A i \in DOMAIN res[h] : res[h][i][1] # p

\* a table of three rows, two of them sharing a hash and upserted in the
\* reverse of path order, was reported as one group of two
C15_Witness ==
    /\ Reported
    /\ Cardinality(DOMAIN LastReport.store) = 3
    /\ \E h \in DOMAIN LastReport.result : Len(LastReport.result[h]) = 2
    /\ \E i, j \in DOMAIN upLog :
          /\ i < j /\ PathLess(upLog[j].path, upLog[i].path)
          /\ upLog[i].sha256 # None /\ upLog[i].sha256 = upLog[j].sha256

\* worker w is between the execute and the end of the with block of upsert_file
InWriteSection(w) == phase = "scanning" /\ wk[w].pc \in {"commit", "return"}
\* worker w has called upsert_file and waits for the lock
WaitsToWrite(w) == phase = "scanning" /\ wk[w].pc = "upsert"

\* C12: workers upserting different paths at the same time lose nothing: at
\* most one of them is inside the write-and-commit section, the open
\* transaction holds the row of that worker only, and every row upserted in
\* the run is in the store with exactly the fields its writer supplied.
C12_ConcurrentWriters ==
    /\ \A w1, w2 \in Workers : (InWriteSection(w1) /\ InWriteSection(w2)) => w1 = w2
    /\ \A w \in Workers :
          (phase = "scanning" /\ wk[w].pc = "commit") =>
              (DOMAIN pending = {call[w][1].path} /\ rp = "out")
    /\ \A i \in DOMAIN upLog :
          upLog[i].scanned_at = scanned_at =>
              (upLog[i].path \in DOMAIN db /\ db[upLog[i].path] = upLog[i])
    /\ (phase = "scanning" /\ AllExited) =>
          \A e \in events :
              (e.run = run /\ e.act = "process") =>
                  \E i \in DOMAIN upLog : upLog[i].path = e.path /\ db[e.path] = upLog[i]

\* one worker has committed its row and not yet left upsert_file while
\* another waits with a row for a different path
C12_Witness ==
    \E w1, w2 \in Workers :
        /\ wk[w1].pc = "return" /\ WaitsToWrite(w2)
        /\ call[w1][1].path # call[w2][1].path
        /\ call[w1][1].path \in DOMAIN db

\* C13: every upsert is committed before the call returns, so whenever the
\* process dies, the store, when reopened, has the row of every upsert whose
\* commit was done (so of every one that returned), with the fields of the
\* last such upsert for its path.
C13_Durable ==
    /\ \A w \in Workers :
          (phase = "scanning" /\ wk[w].pc = "return") =>
              /\ \E i \in DOMAIN upLog : upLog[i] = call[w][1]
              /\ call[w][1].path \in DOMAIN db
              /\ db[call[w][1].path] = call[w][1]
    /\ \A i \in DOMAIN upLog :
          /\ upLog[i].path \in DOMAIN db
          /\ db[upLog[i].path] = LastUpsertOf(upLog[i].path)

\* the process died in its first scan after some upserts had returned and
\* before the scan was over, and the store was opened again
C13_Witness ==
    /\ phase = "idle" /\ run = 1 /\ runs = <<>>
    /\ Len(upLog) >= 1 /\ Len(upLog) < NumDirs
    /\ DOMAIN db = { upLog[i].path : i \in DOMAIN upLog }

\* C14: a resume lookup or a duplicate grouping that runs while other workers
\* upsert returns no row or rows of the committed table, each the complete
\* record of one upsert whose commit was done, never a row of an open
\* transaction.
C14_ReadsCommitted ==
    \A r \in DOMAIN reads :
        reads[r] # None =>
            LET x == reads[r][1]
                Finished(row) == \E i \in DOMAIN upLog : upLog[i] = row
            IN IF x.kind = "lookup"
               THEN \/ x.row = None /\ x.path \notin DOMAIN x.inflight
                    \/ /\ x.row # None
                       /\ x.path \in DOMAIN x.store
                       /\ x.row[1] = x.store[x.path]
                       /\ Finished(x.row[1])
               ELSE \A h \in DOMAIN x.result : \A i \in DOMAIN x.result[h] :
                       LET e == x.result[h][i]
                       IN /\ e[1] \in DOMAIN x.store
                          /\ Finished(x.store[e[1]])
                          /\ x.store[e[1]].sha256 = Some(h)
                          /\ x.store[e[1]].size = e[2]
                          /\ x.store[e[1]].mtime = e[3]

\* a lookup found a row while another worker's transaction was open, and a
\* duplicate grouping ran during the scan and found a group
C14_Witness ==
    /\ \E w \in Workers :
          /\ reads[w] # None
          /\ reads[w][1].row # None
          /\ reads[w][1].inflight # <<>>
    /\ reads[ReporterId] # None
    /\ phase = "scanning"
    /\ DOMAIN reads[ReporterId][1].result # {}

\* the files that have a row at the end of scan r, and among them the files
\* with the content of f
Indexed(r) == { f \in FileIds : FilePath(tree, f) \in DOMAIN runs[r].db }
SameContent(r, f) ==
    { g \in Indexed(r) : runs[r].files[g].content = runs[r].files[f].content }
GroupPaths(g) == { g[i][1] : i \in DOMAIN g }
\* the first scan is over and it hashed
HashedFirstScan == Len(runs) >= 1 /\ runs[1].cfg.compute_hash

\* C16: after a scan with hashing into an empty store, find_duplicates on the
\* store gives, for every set of two or more indexed files with identical
\* content, exactly one group holding exactly their paths, and no group for a
\* content that appears once; without filters every file is indexed (three
\* files, two of them identical: three rows and one group of two).
C16_EndToEndDedup ==
    HashedFirstScan =>
        LET res == find_duplicates(runs[1].db)
        IN /\ NoFilters(runs[1].cfg) => Indexed(1) = FileIds
           /\ \A f \in Indexed(1) :
                 LET same == { FilePath(tree, g) : g \in SameContent(1, f) }
                     mine == { h \in DOMAIN res : FilePath(tree, f) \in GroupPaths(res[h]) }
                 IN IF Cardinality(same) >= 2
                    THEN /\ Cardinality(mine) = 1
                         /\ \A h \in mine : GroupPaths(res[h]) = same
                                              /\ Len(res[h]) = Cardinality(same)
                    ELSE mine = {}
           /\ \A h \in DOMAIN res :
                 \E f \in Indexed(1) : FilePath(tree, f) \in GroupPaths(res[h])

\* the scan indexed every file and the two identical files form the one group
C16_Witness ==
    /\ HashedFirstScan /\ NoFilters(runs[1].cfg)
    /\ Cardinality(DOMAIN runs[1].db) = NumDirs
    /\ Cardinality(DOMAIN find_duplicates(runs[1].db)) = 1
    /\ \A h \in DOMAIN find_duplicates(runs[1].db) :
          GroupPaths(find_duplicates(runs[1].db)[h])
             = { FilePath(tree, 1), FilePath(tree, 2) }

\* C17: a regular file of size S gets a row if and only if min_size <= S <=
\* max_size (bounds inclusive, no upper bound when max_size is not set) and
\* its name matches the pattern when one is set.
C17_FilterCorrect ==
    (RunOver /\ run = 1) =>
        \A f \in FileIds :
            FilePath(tree, f) \in DOMAIN db
               <=> PassesFilters(cfg, FileNames[f], files[f].size)

\* both bounds equal the size of the two larger files and a pattern is set:
\* the one file that matches the pattern and has that size is the only row
C17_Witness ==
    /\ RunOver /\ run = 1
    /\ cfg.pattern # None
    /\ cfg.min_size = files[1].size /\ cfg.max_size = Some(files[1].size)
    /\ DOMAIN db = { FilePath(tree, 1) }
    /\ \E e \in events : e.act = "skip_name"
    /\ \E e \in events : e.act = "skip_size"

\* the path of the entry worker w is at
EntryPath(w) == Append(wk[w].path, CurEntry(w).name)
\* the file entry worker w is at is filtered out by name or size, or has an
\* unchanged row while resume is on
Skipped(w) ==
    \/ ~PassesFilters(cfg, CurEntry(w).name, files[CurEntry(w).tgt].size)
    \/ cfg.resume /\ StoredUnchanged(EntryPath(w), CurEntry(w).tgt)
StoreUntouched == db' = db /\ upserts' = upserts
\* the step writes the row of path p and nothing else
WritesOnly(p) ==
    /\ upserts' = upserts + 1
    /\ DOMAIN db' = DOMAIN db \cup {p}
    /\ db'[p].scanned_at = scanned_at
    /\ \A q \in DOMAIN db \ {p} : db'[q] = db[q]

\* C18: every processed file causes exactly one upsert, and every skipped
\* entry (filtered by name or size, resume-skipped, stat failure, directory
\* already visited) and every failed listing leaves the store unchanged.
C18_OneUpsertPerProcessed ==
    /\ [][\A w \in Workers :
            /\ FileStep(w) =>
                  IF Skipped(w) THEN StoreUntouched ELSE WritesOnly(EntryPath(w))
            /\ (StatFail(w) \/ MarkVisitedEnter(w) \/ MarkVisitedReturn(w)
                   \/ OtherEntry(w) \/ ListFail(w)) => StoreUntouched]_vars
    /\ [](upserts = Cardinality({ e \in events : e.act = "process" }))

\* a second scan is over in which a file was resume-skipped, one was filtered
\* out, one was processed, a directory was refused as already visited and
\* the stat of a listed file failed
C18_Witness ==
    /\ run = 2 /\ phase = "scanning" /\ AllExited
    /\ \E e \in events : e.run = 2 /\ e.act = "skip_resume"
    /\ \E e \in events : e.run = 2 /\ e.act \in {"skip_name", "skip_size"}
    /\ \E k \in DOMAIN mvLog : Len(mvLog[k]) >= 2
    /\ \E f \in gone :
          /\ \E i \in DOMAIN claimLog : claimLog[i].dir = f
          /\ f \notin bad_dirs
          /\ \A e \in events : e.run = 2 => e.file # f

\* C19: the indexer never deletes a row: across scans with any --hash and
\* --no-resume setting, with files vanishing and directories becoming
\* unreadable, every path in the store stays in the store.
C19_NeverDeletes == [][\A p \in DOMAIN db : p \in DOMAIN db']_vars

\* a file indexed by the first scan vanished, the second scan listed its
\* directory and is over, and the row is still there
C19_Witness ==
    /\ run = 2 /\ RunOver
    /\ \E e \in events :
          /\ e.run = 1 /\ e.act = "process" /\ e.file \in gone
          /\ e.path \in DOMAIN db
          /\ e.file \notin bad_dirs
          /\ \E i \in DOMAIN claimLog : claimLog[i].dir = e.file
          /\ \A x \in events : x.run = 2 => x.file # e.file

\* a scan is running and some directory cannot be listed
FailingScan == phase = "scanning" /\ bad_dirs # {}

\* C20: a directory listing failure is never fatal: the worker that hit it
\* finishes the directory and goes back to claiming, nothing else changes,
\* the scan terminates, and at its end every pushed directory was claimed and
\* the file of every claimed directory that can be read was handled.
C20_ListingFailureContained ==
    /\ [][\A w \in Workers :
            ListFail(w) =>
                /\ wk'[w].pc = "get" /\ phase' = "scanning"
                /\ dir_queue' = dir_queue /\ db' = db
                /\ \A v \in Workers \ {w} : wk'[v] = wk[v]]_vars
    /\ []((FailingScan /\ AllExited) =>
            /\ dir_queue = <<>> /\ unfinished = 0
            /\ Len(claimLog) = Len(pushLog)
            /\ \A i \in DOMAIN claimLog :
                  LET d == claimLog[i].dir
                  IN (d \notin bad_dirs /\ d \notin gone) =>
                        \E e \in events : e.run = run /\ e.file = d)
    /\ FailingScan ~> (bad_dirs # {} /\ AllExited)

\* the listing of a directory failed while another was queued, and the scan
\* ended with the other directories claimed and handled
C20_Witness ==
    /\ FailingScan /\ AllExited
    /\ run = 1
    /\ Len(claimLog) = NumDirs
    /\ \E d \in bad_dirs : \A e \in events : e.file # d
    /\ Cardinality({ e.file : e \in events }) = NumDirs - 1

\* every entry of directory listing number i of the claims of this run was
\* handled: a file has an event, a subdirectory was passed to mark_visited
EntriesHandled(i) ==
    \A k \in DOMAIN tree.ent[claimLog[i].dir] :
        LET e == tree.ent[claimLog[i].dir][k]
            p == Append(claimLog[i].path, e.name)
        IN /\ e.kind = "file" => \E x \in events : x.run = run /\ x.path = p
           /\ e.kind = "dir" => VisitKey(StatDir(e.tgt)) \in DOMAIN mvLog

\* C21: whatever error occurs while a worker handles one entry of a directory
\* (status resolution, type check, resume lookup, hashing, persistence), the
\* worker still processes all the remaining sibling entries of that
\* directory: when the scan is over, every entry of every claimed directory
\* has been handled.
C21_ErrorsScopedToEntry ==
    RunOver => \A i \in DOMAIN claimLog : EntriesHandled(i)

\* C22: once an external interrupt is delivered during a scan, workers stop
\* claiming new directories from the queue promptly: after the interrupt at
\* most one more directory per worker is claimed (a get already in flight),
\* and only committed rows are in the store.
C22_InterruptStopsClaims ==
    interrupted # None =>
        /\ Len(claimLog) <= interrupted[1] + NumWorkers
        /\ pending = <<>>

\* C23: on normal completion, and also after a caught interrupt, the CLI runs
\* the duplicate query once after traversal has ended, and the query is
\* served by a usable store, so that the duplicate summary is produced.
C23_ReportAfterScan ==
    (run >= 1 /\ phase = "idle" /\ rp # "out") =>
        /\ rp = "reported"
        /\ reads[ReporterId] # None
        /\ reads[ReporterId][1].result = find_duplicates(db)

\* the write attempts of this run that raised
UpsertFailures == { x \in events : x.run = run /\ x.act = "upsert_failed" }
\* no error of this run was raised by a type check or a resume lookup
OnlyContainedErrors ==
    \A x \in events : x.run = run => x.act \notin {"type_error", "lookup_error"}

\* C24: a store write that fails does not stop the scan and is not retried:
\* the failing file gets no row from the attempt, the worker goes on with the
\* next entries (every entry of every claimed directory is handled and every
\* directory is claimed), and one write attempt is made per file.
C24_WriteFailureContained ==
    (RunOver /\ OnlyContainedErrors) =>
        /\ \A x \in UpsertFailures : x.path \notin DOMAIN db
        /\ \A i \in DOMAIN claimLog : EntriesHandled(i)
        /\ \A d \in Dirs : Claims(d) # {}
        /\ upserts = Cardinality({ x \in events :
                                    /\ x.run = run
                                    /\ x.act \in {"process", "upsert_failed"} })
        /\ \A x \in UpsertFailures :
             Cardinality({ y \in events : y.run = run /\ y.path = x.path }) = 1

C24_Witness ==
    /\ RunOver
    /\ UpsertFailures # {}
    /\ Cardinality(DOMAIN db) = NumDirs - 1
    /\ \E x \in UpsertFailures : x.path = <<FileNames[1]>>

\* the files of this run whose content hash could not be computed
HashFailures ==
    { x \in events : x.run = run /\ x.act = "process" /\ cfg.compute_hash /\ ~x.hashed }

\* C25: a file whose content hash cannot be computed still gets its row,
\* with its base fields, and the row carries an error marker: it differs from
\* the row a scan without --hash writes for the file when nothing fails.
C25_HashFailureMarked ==
    RunOver =>
        \A x \in HashFailures :
            /\ x.path \in DOMAIN db
            /\ db[x.path].size = files[x.file].size
            /\ db[x.path].mtime = files[x.file].mtime
            /\ db[x.path] # Meta(x.path, StatFile(x.file), None, scanned_at)

\* no worker loop was started, no directory pushed or claimed, no row written
NoWorkDone ==
    /\ \A w \in Workers : wk[w] = IdleWorker
    /\ pushLog = <<>>
    /\ claimLog = <<>>
    /\ events = {}
    /\ upserts = 0
    /\ db = <<>>
    /\ pending = <<>>

\* C26: when the root path does not exist, or the store cannot be opened,
\* the scan fails before any worker is started: no directory is ever claimed
\* and no row is written.
C26_FatalBeforeWork ==
    (tree.rootkind = "missing" \/ phase = "aborted") =>
        /\ phase \in {"idle", "ready", "failed", "aborted"}
        /\ NoWorkDone

C26_Witness ==
    /\ tree.rootkind = "missing"
    /\ phase = "failed"
    /\ rp = "reported"

\* C27: CatalogScanner.scan, run without an extension limit and without
\* resume, yields exactly one entry per data file placed under the root, each
\* with the format of its extension, also when the output directory is a
\* subdirectory of the scanned root.
C27_OneEntryPerDataFile ==
    (cs # None /\ cs[1].pc = "done") =>
        /\ { cs[1].entries[i].path : i \in DOMAIN cs[1].entries } = cs[1].placed
        /\ Len(cs[1].entries) = Cardinality(cs[1].placed)
        /\ \A i \in DOMAIN cs[1].entries :
             cs[1].entries[i].format = detect_format(cs[1].entries[i].path[3])

\* C28: for every file content, the empty one included, and every positive
\* block size, feeding the content to the digest block by block gives the
\* result of hashing the whole content at once.
C28_BlockIndependent ==
    (hs # None /\ hs[1].pc = "done") =>
        /\ hs[1].h = HashUpdate(HashNew, hs[1].content)
        /\ hs[1].pos = Len(hs[1].content)

C28_Witness ==
    /\ hs # None
    /\ hs[1].pc = "done"
    /\ hs[1].block > 1
    /\ Len(hs[1].content) > hs[1].block
    /\ Len(hs[1].content) % hs[1].block # 0

\* the path of the directory an entry path lies in
ParentPath(p) == SubSeq(p, 1, Len(p) - 1)
\* the directory at path p has been claimed by a worker in this run
ClaimedPath(p) == \E i \in DOMAIN claimLog : claimLog[i].path = p

\* C29: no entry of a directory is processed before that directory has been
\* claimed by a worker; no subdirectory is claimed before its parent's
\* listing step has pushed it (claims follow the pushes, and every push but
\* the first is made for an entry of a directory claimed before); the root is
\* the only path pushed without a parent listing.
C29_CausalOrder ==
    /\ \A w \in Workers :
         (phase = "scanning" /\ wk[w].pc \in {"scan", "marking"}) =>
             ClaimedPath(wk[w].path)
    /\ \A x \in events : x.run = run => ClaimedPath(ParentPath(x.path))
    /\ Len(claimLog) <= Len(pushLog)
    /\ \A i \in DOMAIN claimLog : claimLog[i] = pushLog[i]
    /\ \A j \in DOMAIN pushLog :
         IF j = 1 THEN pushLog[j].path = <<>>
         ELSE /\ pushLog[j].path # <<>>
              /\ \E i \in DOMAIN claimLog :
                    /\ i < j
                    /\ claimLog[i].path = ParentPath(pushLog[j].path)

C29_Witness ==
    /\ RunOver
    /\ Len(claimLog) = NumDirs
    /\ \E i \in DOMAIN claimLog : Len(claimLog[i].path) = 2
    /\ \E x \in events : x.run = run /\ Len(x.path) = 3

\* the two paths of the hard-linked file of the tree
LinkTargetPath == FilePath(tree, tree.link.tgt)
LinkPath == Append(PathOf(tree, tree.link.src), LinkName)

\* C30: the visited set gates directories only: two regular files that share
\* one (device, inode) pair under different paths are both processed and
\* yield two rows, one per path.
C30_HardLinksBothProcessed ==
    (RunOver /\ tree.link.kind = "file") =>
        /\ LinkPath # LinkTargetPath
        /\ \A p \in {LinkPath, LinkTargetPath} :
             /\ p \in DOMAIN db
             /\ db[p].path = p
             /\ \E x \in events : x.run = run /\ x.path = p /\ x.act = "process"
        /\ db[LinkPath].dev = db[LinkTargetPath].dev
        /\ db[LinkPath].inode = db[LinkTargetPath].inode
        /\ Cardinality(DOMAIN db) = NumDirs + 1
        /\ \A k \in visited_inodes : k \in { VisitKey(StatDir(d)) : d \in Dirs }

C30_Witness ==
    /\ RunOver
    /\ tree.link.kind = "file"
    /\ tree.link.src # tree.link.tgt
    /\ LinkPath \in DOMAIN db
    /\ LinkTargetPath \in DOMAIN db
    /\ db[LinkPath].inode = db[LinkTargetPath].inode

\* the last name of a path is the symlink of the tree
IsLinkPath(p) == p # <<>> /\ p[Len(p)] = LinkName

\* C31: with follow_symlinks off a symlink to a directory is never pushed on
\* the queue and a symlink to a file never gets a row or an event; the
\* directories listed are the real directories under the root, each under
\* its own path.
C31_SymlinksNotFollowed ==
    ~cfg.follow_symlinks =>
        /\ \A j \in DOMAIN pushLog : ~IsLinkPath(pushLog[j].path)
        /\ \A p \in DOMAIN db : ~IsLinkPath(p)
        /\ \A x \in events : ~IsLinkPath(x.path)
        /\ \A i \in DOMAIN claimLog : claimLog[i].path = PathOf(tree, claimLog[i].dir)
        /\ RunOver => /\ { claimLog[i].dir : i \in DOMAIN claimLog } = Dirs
                      /\ Len(claimLog) = NumDirs
                      /\ DOMAIN db = { FilePath(tree, f) : f \in FileIds }

C31_Witness ==
    /\ RunOver
    /\ ~cfg.follow_symlinks
    /\ tree.link.kind = "symdir"
    /\ tree.link.src # tree.link.tgt
    /\ Len(claimLog) = NumDirs

\* a resume lookup for path p is the last read of some worker
LookedUp(p) ==
    \E w \in Workers : /\ reads[w] # None
                       /\ reads[w][1].kind = "lookup"
                       /\ reads[w][1].path = p

\* C32: for a regular file the name filter and the size filter run before
\* the resume check: a file rejected by either filter is dropped before any
\* store lookup is made for it.
C32_FiltersBeforeLookup ==
    \A x \in events :
        (x.run = run /\ x.act \in {"skip_name", "skip_size"}) => ~LookedUp(x.path)

\* a worker loop is inside the listing of a directory it claimed
InFlight(w) == wk[w].pc \in {"scan", "marking"}

C34_NoStoreUseAfterClose ==
    /\ []((run >= 1 /\ ~StoreOpen) => AllExited)
    /\ [][(phase = "scanning" /\ phase' # "scanning") => (AllExited /\ wk' = wk)]_vars
    /\ [][(db' # db \/ events' # events \/ upserts' # upserts)
            => (phase = "scanning" /\ phase' = "scanning")]_vars

\* the scan was interrupted, went on to its end and the store was closed
C34_Witness ==
    /\ RunOver
    /\ interrupted # None
    /\ interrupted[1] < Len(claimLog)
    /\ Cardinality(DOMAIN db) = NumDirs

\* the worker is inside upsert_file
Writing(w) == phase = "scanning" /\ wk[w].pc \in {"upsert", "commit", "return"}

\* C35: within one run each file path is upserted at most once: no two
\* committed upserts carry the same path and the same run's timestamp, no two
\* workers are inside upsert_file for the same path, and no path is claimed
\* twice in a run.
C35_PathUpsertedOnce ==
    /\ \A i, j \in DOMAIN upLog :
         (i # j /\ upLog[i].path = upLog[j].path)
            => upLog[i].scanned_at # upLog[j].scanned_at
    /\ \A v, w \in Workers :
         (v # w /\ Writing(v) /\ Writing(w)) => call[v][1].path # call[w][1].path
    /\ \A i, j \in DOMAIN claimLog : i # j => claimLog[i].path # claimLog[j].path

\* two workers are inside upsert_file at once, for two paths, and a path has
\* been upserted in two runs
C35_Witness ==
    /\ \E v, w \in Workers : v # w /\ Writing(v) /\ Writing(w)
    /\ \E i, j \in DOMAIN upLog : i # j /\ upLog[i].path = upLog[j].path

\* the upsert attempts of the current run: one event per file that passed
\* the name and size filters and was not resume-skipped
Attempts == { x \in events : x.run = run /\ x.act \in {"process", "upsert_failed"} }

\* rows the current run wrote
RowsWritten == { p \in DOMAIN db : db[p].scanned_at = scanned_at }

\* C36: the total scan() reports is the number of upsert attempts of the
\*      run, summed over all worker loops without loss or double counting;
\*      a failed upsert is counted, so the total is at least the number of
\*      rows written and can exceed it
C36_TotalCountsAttempts ==
    (phase = "idle" /\ processed.reported) =>
        /\ processed.total = Cardinality(Attempts)
        /\ processed.total = Cardinality({ x.path : x \in Attempts })
        /\ Cardinality(RowsWritten) =
               Cardinality({ x \in Attempts : x.act = "process" })
        /\ processed.total >= Cardinality(RowsWritten)

C36_Witness ==
    /\ phase = "idle"
    /\ processed.reported
    /\ \A w \in Workers : processed.loops[w] >= 1
    /\ \E x \in Attempts : x.act = "upsert_failed"
    /\ processed.total > Cardinality(RowsWritten)

\* a find_duplicates call has returned its result
FindReturned == rp = "out" /\ reads[ReporterId] # None

\* C37: find_duplicates holds the store lock from the grouping query to the
\*      last member query: no upsert lands in between, every returned
\*      group has at least two members, and the result is the duplicate
\*      map of the one store state the call started on
C37_FindDuplicatesOneState ==
    /\ rp = "in" => /\ db_lock = ReporterId
                    /\ db = reads[ReporterId][1].store
    /\ FindReturned =>
          LET r == reads[ReporterId][1]
          IN /\ \A h \in DOMAIN r.result : Len(r.result[h]) >= 2
             /\ r.result = find_duplicates(r.store)

C37_Witness ==
    /\ FindReturned
    /\ \E h \in DOMAIN reads[ReporterId][1].result :
          Len(reads[ReporterId][1].result[h]) >= 2
    /\ \E i \in DOMAIN upLog :
          /\ upLog[i].path \in DOMAIN reads[ReporterId][1].store
          /\ reads[ReporterId][1].store[upLog[i].path].sha256 # None
          /\ db[upLog[i].path].sha256 # reads[ReporterId][1].store[upLog[i].path].sha256

\* the paths of run r whose file step ended in a
PathsBy(r, a) == { x.path : x \in { e \in events : e.run = r /\ e.act = a } }

\* two finished scans of the same files, the second with --no-resume
ResumeOffTwice ==
    /\ Len(runs) >= 2
    /\ runs[2].files = runs[1].files
    /\ ~runs[2].cfg.resume

\* C38: with resume disabled nothing is resume-skipped: every file that
\*      passes the filters is upserted again whatever row is stored, and a
\*      second scan of an unchanged tree keeps the set of paths and changes
\*      a row only in its last-scanned field and its recomputed hash
C38_NoResumeRewritesAll ==
    ResumeOffTwice =>
        /\ PathsBy(2, "skip_resume") = {}
        /\ \A x \in events :
              (x.run = 2 /\ PassesFilters(runs[2].cfg, x.path[Len(x.path)],
                                          runs[2].files[x.file].size))
                 => x.act = "process"
        /\ PathsBy(2, "process") = PathsBy(1, "process")
        /\ runs[2].upserts - runs[1].upserts = Cardinality(PathsBy(2, "process"))
        /\ DOMAIN runs[2].db = DOMAIN runs[1].db
        /\ \A p \in DOMAIN runs[2].db :
              LET old == runs[1].db[p]
                  new == runs[2].db[p]
              IN /\ [new EXCEPT !.scanned_at = old.scanned_at,
                                !.sha256 = old.sha256] = old
                 /\ new.scanned_at > old.scanned_at
                 /\ new.sha256 = None <=> ~runs[2].cfg.compute_hash
                 /\ (runs[1].cfg.compute_hash /\ runs[2].cfg.compute_hash)
                       => new.sha256 = old.sha256

C38_Witness ==
    /\ ResumeOffTwice
    /\ runs[1].cfg.resume
    /\ Cardinality(DOMAIN runs[2].db) >= 2
    /\ PathsBy(2, "skip_name") \cup PathsBy(2, "skip_size") # {}
    /\ \E p \in DOMAIN runs[2].db : runs[2].db[p].sha256 # runs[1].db[p].sha256

\* the file steps of the second scan that upserted a row without a hash:
\* hashing was off, or sha256_file failed
Unhashed2 == { x \in events : x.run = 2 /\ x.act = "process" /\ ~x.hashed }

\* the paths listed in some group of the duplicate map of a store
InSomeGroup(store) ==
    UNION { GroupPaths(find_duplicates(store)[h]) : h \in DOMAIN find_duplicates(store) }

\* C39: an upsert with a null hash replaces the stored hash: a path that is
\*      processed again without hashing, or with a failed hash, has no hash
\*      in its row afterwards and is in no duplicate group
C39_NullHashErases ==
    Len(runs) >= 2 =>
        \A x \in Unhashed2 :
            /\ runs[2].db[x.path].sha256 = None
            /\ x.path \notin InSomeGroup(runs[2].db)

C39_Witness ==
    /\ Len(runs) >= 2
    /\ runs[2].cfg.compute_hash
    /\ \E x \in Unhashed2 :
          /\ runs[1].db[x.path].sha256 # None
          /\ x.path \in InSomeGroup(runs[1].db)
          /\ x.path \notin InSomeGroup(runs[2].db)
====
